---- MODULE Spec2Model ----
(***************************************************************************)
(* Model of gosshit's SSH config document model: ParseConfig, WriteConfig, *)
(* writeEntry and the mutation operations AddEntry, UpdateEntry and        *)
(* DeleteEntry.  Text is modelled as sequences of symbols: a symbol is one  *)
(* byte (space, tab, newline, "#", a one-letter value) or one whole word   *)
(* that the code only ever tests as a unit (a directive name in one of its *)
(* spellings, "Description:").  A file is the sequence of its symbols,     *)
(* newlines included.                                                      *)
(***************************************************************************)
EXTENDS Integers, Sequences, FiniteSets, TLC

(***************************************************************************)
(* Go string primitives (package strings, bufio.ScanLines)                 *)
(***************************************************************************)

NL == "\n"

\* unicode.IsSpace restricted to the bytes of the model's alphabet
IsSpace(c) == c \in {" ", "\t", "\r", "\n"}

\* the cutset " \t" of strings.TrimLeft(line, " \t")
IsBlankOrTab(c) == c \in {" ", "\t"}

\* strings.ToLower on the symbols of the model's alphabet
LowerChar(c) ==
    CASE c = "Host" -> "host"
      [] c = "HostName" -> "hostname"
      [] c = "User" -> "user"
      [] c = "Port" -> "port"
      [] c = "IdentityFile" -> "identityfile"
      [] c = "Description:" -> "description:"
      [] c = "Opt" -> "opt"
      [] OTHER -> c

ToLower(s) == [i \in 1..Len(s) |-> LowerChar(s[i])]

HasPrefix(s, p) == Len(s) >= Len(p) /\ SubSeq(s, 1, Len(p)) = p

Contains(s, sub) ==
    \E i \in 1..(Len(s) - Len(sub) + 1) : SubSeq(s, i, i + Len(sub) - 1) = sub

TrimPrefix(s, p) == IF HasPrefix(s, p) THEN SubSeq(s, Len(p) + 1, Len(s)) ELSE s

\* number of leading bytes of s that satisfy the cutset test
RECURSIVE LeadingSpaces(_, _)
LeadingSpaces(s, i) ==
    IF i <= Len(s) /\ IsSpace(s[i]) THEN LeadingSpaces(s, i + 1) ELSE i - 1

RECURSIVE TrailingSpaces(_, _)
TrailingSpaces(s, i) ==
    IF i >= 1 /\ IsSpace(s[i]) THEN TrailingSpaces(s, i - 1) ELSE Len(s) - i

TrimSpace(s) ==
    LET a == LeadingSpaces(s, 1)
    IN  IF a = Len(s) THEN <<>>
        ELSE SubSeq(s, a + 1, Len(s) - TrailingSpaces(s, Len(s)))

RECURSIVE LeadingBlanks(_, _)
LeadingBlanks(s, i) ==
    IF i <= Len(s) /\ IsBlankOrTab(s[i]) THEN LeadingBlanks(s, i + 1) ELSE i - 1

\* line[:len(line)-len(strings.TrimLeft(line, " \t"))]
LeadingWhitespace(line) == SubSeq(line, 1, LeadingBlanks(line, 1))

\* strings.Fields: the maximal runs of non-space bytes
RECURSIVE FieldsFrom(_, _, _, _)
FieldsFrom(s, i, cur, acc) ==
    IF i > Len(s)
    THEN IF cur = <<>> THEN acc ELSE Append(acc, cur)
    ELSE IF IsSpace(s[i])
         THEN FieldsFrom(s, i + 1, <<>>, IF cur = <<>> THEN acc ELSE Append(acc, cur))
         ELSE FieldsFrom(s, i + 1, Append(cur, s[i]), acc)

Fields(s) == FieldsFrom(s, 1, <<>>, <<>>)

\* strings.Join(parts, sep)
RECURSIVE Join(_, _)
Join(parts, sep) ==
    IF parts = <<>> THEN <<>>
    ELSE IF Len(parts) = 1 THEN parts[1]
    ELSE parts[1] \o sep \o Join(Tail(parts), sep)

\* bufio.ScanLines over the whole file: split at "\n", drop one trailing
\* "\r" of each line, return a final unterminated line when it is non-empty
DropCR(l) == IF l # <<>> /\ l[Len(l)] = "\r" THEN SubSeq(l, 1, Len(l) - 1) ELSE l

RECURSIVE ScanFrom(_, _, _, _)
ScanFrom(bytes, i, cur, acc) ==
    IF i > Len(bytes)
    THEN IF cur = <<>> THEN acc ELSE Append(acc, DropCR(cur))
    ELSE IF bytes[i] = NL
         THEN ScanFrom(bytes, i + 1, <<>>, Append(acc, DropCR(cur)))
         ELSE ScanFrom(bytes, i + 1, Append(cur, bytes[i]), acc)

ScanLines(bytes) == ScanFrom(bytes, 1, <<>>, <<>>)

\* the bytes produced by file.WriteString(line + "\n") for each line in turn
RECURSIVE WriteLines(_)
WriteLines(lines) ==
    IF lines = <<>> THEN <<>> ELSE lines[1] \o <<NL>> \o WriteLines(Tail(lines))

(***************************************************************************)
(* String literals of the source                                           *)
(***************************************************************************)

sHash == <<"#">>
sHashHash == <<"#", "#">>
sDescPrefix == <<"#", " ", "Description:">>
sHost == <<"Host">>
sHostName == <<"HostName">>
sUser == <<"User">>
sPort == <<"Port">>
sIdentityFile == <<"IdentityFile">>
\* the lower-case directive names the switch statements compare against
kHost == <<"host">>
kHostName == <<"hostname">>
kUser == <<"user">>
kPort == <<"port">>
kIdentityFile == <<"identityfile">>
kHostSp == <<"host", " ">>
sStar == <<"*">>
sSp == <<" ">>
sTab == <<"\t">>
sIndent4 == <<" ", " ", " ", " ">>

(***************************************************************************)
(* HostEntry (model.go)                                                    *)
(***************************************************************************)

NewEntry(host, hostName, user, port, identityFile, description) ==
    [Host |-> host, HostName |-> hostName, User |-> user, Port |-> port,
     IdentityFile |-> identityFile, Description |-> description,
     Comment |-> <<>>, RawLines |-> <<>>, StartLine |-> 0, EndLine |-> 0]

IsValid(h) ==
    IF h.Host = <<>> THEN FALSE
    ELSE IF h.Host = sStar THEN TRUE
    ELSE h.HostName # <<>>

(***************************************************************************)
(* ParseConfig (parser.go)                                                 *)
(***************************************************************************)

NoEntry == NewEntry(<<>>, <<>>, <<>>, <<>>, <<>>, <<>>)

\* the local variables of ParseConfig before the scan loop
ParseStart ==
    [entries |-> <<>>, standaloneComments |-> <<>>,
     hasCurrent |-> FALSE, currentEntry |-> NoEntry,
     commentBuffer |-> <<>>, currentHostLines |-> <<>>,
     lineNum |-> 0, inHostBlock |-> FALSE]

\* SaveCurrent without the IsValid test
SaveCurrent_Unchecked(st, endLine) ==
    Append(st.entries, [st.currentEntry EXCEPT !.RawLines = st.currentHostLines,
                                               !.EndLine = endLine])

\* currentEntry.RawLines = currentHostLines; currentEntry.EndLine = endLine;
\* if currentEntry.IsValid() { entries = append(entries, currentEntry) }
SaveCurrent(st, endLine) ==
    LET e == [st.currentEntry EXCEPT !.RawLines = st.currentHostLines,
                                     !.EndLine = endLine]
    IN  IF IsValid(e) THEN Append(st.entries, e) ELSE st.entries

\* ExtractDescription that stops at the first regular comment line
RECURSIVE ExtractDescription_FirstComment(_, _, _)
ExtractDescription_FirstComment(buf, i, desc) ==
    IF i > Len(buf) THEN desc
    ELSE LET trimmed == TrimSpace(buf[i])
         IN  IF trimmed = <<>> THEN ExtractDescription_FirstComment(buf, i + 1, desc)
             ELSE IF HasPrefix(trimmed, sDescPrefix)
                  THEN TrimSpace(TrimPrefix(trimmed, sDescPrefix))
             ELSE IF HasPrefix(trimmed, sHash) /\ ~HasPrefix(trimmed, sHashHash)
                  THEN TrimSpace(TrimPrefix(trimmed, sHash))
             ELSE ExtractDescription_FirstComment(buf, i + 1, desc)

\* the description taken from the comment buffer when a Host line is met
RECURSIVE ExtractDescription(_, _, _)
ExtractDescription(buf, i, desc) ==
    IF i > Len(buf) THEN desc
    ELSE LET trimmed == TrimSpace(buf[i])
         IN  IF trimmed = <<>> THEN ExtractDescription(buf, i + 1, desc)
             ELSE IF HasPrefix(trimmed, sDescPrefix)
                  THEN TrimSpace(TrimPrefix(trimmed, sDescPrefix))
             ELSE IF HasPrefix(trimmed, sHash) /\ ~HasPrefix(trimmed, sHashHash)
                  THEN ExtractDescription(buf, i + 1,
                           IF desc = <<>> THEN TrimSpace(TrimPrefix(trimmed, sHash))
                           ELSE desc)
             ELSE ExtractDescription(buf, i + 1, desc)

\* a comment line (trimmed starts with "#")
ParseCommentLine(st0, line, trimmed) ==
    LET closes == /\ \/ HasPrefix(trimmed, sDescPrefix)
                     \/ (HasPrefix(trimmed, sHash) /\ ~HasPrefix(trimmed, sHashHash)
                         /\ st0.inHostBlock)
                  /\ st0.inHostBlock
                  /\ ~HasPrefix(line, sSp)
                  /\ ~HasPrefix(line, sTab)
        st == IF closes
              THEN [st0 EXCEPT !.entries = IF st0.hasCurrent
                                           THEN SaveCurrent(st0, st0.lineNum - 1)
                                           ELSE st0.entries,
                               !.inHostBlock = FALSE,
                               !.hasCurrent = FALSE,
                               !.currentEntry = NoEntry,
                               !.currentHostLines = <<>>]
              ELSE st0
    IN  IF st.inHostBlock
        THEN [st EXCEPT !.currentHostLines = Append(@, line),
                        !.currentEntry = IF st.hasCurrent
                                         THEN [@ EXCEPT !.Comment = @ \o line \o <<NL>>]
                                         ELSE @]
        ELSE [st EXCEPT !.commentBuffer = Append(@, line)]

\* an empty line (trimmed is "")
ParseEmptyLine(st, line) ==
    IF st.inHostBlock
    THEN [st EXCEPT !.currentHostLines = Append(@, line),
                    !.currentEntry = IF st.hasCurrent
                                     THEN [@ EXCEPT !.Comment = @ \o line \o <<NL>>]
                                     ELSE @]
    ELSE st

\* a Host directive: closes the open block and opens a new one
ParseHostLine(st, line, value) ==
    LET saved == IF st.hasCurrent /\ st.inHostBlock
                 THEN SaveCurrent(st, st.lineNum - 1)
                 ELSE st.entries
        desc == ExtractDescription(st.commentBuffer, 1, <<>>)
        comment == IF Len(st.commentBuffer) > 0
                   THEN Join(st.commentBuffer, <<NL>>) \o <<NL>>
                   ELSE <<>>
    IN  [st EXCEPT !.entries = saved,
                   !.inHostBlock = TRUE,
                   !.hasCurrent = TRUE,
                   !.currentEntry = [NoEntry EXCEPT !.Host = value,
                                                    !.Description = desc,
                                                    !.StartLine = st.lineNum,
                                                    !.Comment = comment],
                   !.currentHostLines = Append(st.commentBuffer, line),
                   !.commentBuffer = <<>>]

\* any other directive with a value
ParseOtherDirective(st0, line, directive, value) ==
    LET st == IF ~st0.inHostBlock /\ Len(st0.commentBuffer) > 0
              THEN [st0 EXCEPT !.standaloneComments = @ \o st0.commentBuffer,
                               !.commentBuffer = <<>>]
              ELSE st0
    IN  IF st.inHostBlock /\ st.hasCurrent
        THEN [st EXCEPT !.currentHostLines = Append(@, line),
                        !.currentEntry =
                            IF directive = kHostName THEN [@ EXCEPT !.HostName = value]
                            ELSE IF directive = kUser THEN [@ EXCEPT !.User = value]
                            ELSE IF directive = kPort THEN [@ EXCEPT !.Port = value]
                            ELSE IF directive = kIdentityFile
                                 THEN [@ EXCEPT !.IdentityFile = value]
                            ELSE @]
        ELSE IF Len(st.commentBuffer) > 0
             THEN [st EXCEPT !.standaloneComments = @ \o st.commentBuffer,
                             !.commentBuffer = <<>>]
             ELSE st

\* one iteration of the scan loop
ParseLine(st0, line) ==
    LET st == [st0 EXCEPT !.lineNum = @ + 1]
        trimmed == TrimSpace(line)
        parts == Fields(trimmed)
    IN  IF HasPrefix(trimmed, sHash) THEN ParseCommentLine(st, line, trimmed)
        ELSE IF trimmed = <<>> THEN ParseEmptyLine(st, line)
        ELSE IF Len(parts) < 2
             THEN IF st.inHostBlock
                  THEN [st EXCEPT !.currentHostLines = Append(@, line)]
                  ELSE st
        ELSE LET directive == ToLower(parts[1])
                 value == Join(Tail(parts), sSp)
             IN  IF directive = kHost THEN ParseHostLine(st, line, value)
                 ELSE ParseOtherDirective(st, line, directive, value)

RECURSIVE ParseLoop(_, _, _)
ParseLoop(lines, i, st) ==
    IF i > Len(lines) THEN st ELSE ParseLoop(lines, i + 1, ParseLine(st, lines[i]))

\* the statements after the scan loop
ParseFinish(st) ==
    [entries |-> IF st.hasCurrent /\ st.inHostBlock
                 THEN SaveCurrent(st, st.lineNum)
                 ELSE st.entries,
     standaloneComments |-> IF Len(st.commentBuffer) > 0
                            THEN st.standaloneComments \o st.commentBuffer
                            ELSE st.standaloneComments]

\* a path on which no file exists
NoFile == <<"<no file>">>

\* a path that exists and cannot be opened (no read permission, a directory)
CannotOpen == <<"<cannot open>">>

\* a run of bytes without a newline that exceeds the scanner's buffer; a
\* file that holds one makes scanner.Scan stop and scanner.Err return an error
sLongRun == "<line longer than the scanner buffer>"

ScanErr(f) == \E i \in 1..Len(f) : f[i] = sLongRun

NoError == "nil"
ErrOpen == "failed to open config file"
ErrRead == "error reading config file"

\* what ParseConfig returns with an error: nil, nil, err
ParseError(err) == [entries |-> <<>>, standaloneComments |-> <<>>, err |-> err]

\* ParseConfig with the check of scanner.Err() left out
ParseConfig_NoScanErr(f) ==
    IF f = NoFile THEN ParseError(NoError)
    ELSE IF f = CannotOpen THEN ParseError(ErrOpen)
    ELSE LET r == ParseFinish(ParseLoop(ScanLines(f), 1, ParseStart))
         IN  [entries |-> r.entries, standaloneComments |-> r.standaloneComments,
              err |-> NoError]

\* ParseConfig: (entries, standaloneComments, err); the os.IsNotExist branch
\* returns two empty lists and no error
ParseConfig(f) ==
    IF f = NoFile THEN ParseError(NoError)
    ELSE IF f = CannotOpen THEN ParseError(ErrOpen)
    ELSE IF ScanErr(f) THEN ParseError(ErrRead)
    ELSE LET r == ParseFinish(ParseLoop(ScanLines(f), 1, ParseStart))
         IN  [entries |-> r.entries, standaloneComments |-> r.standaloneComments,
              err |-> NoError]

(***************************************************************************)
(* WriteConfig and writeEntry (writer.go)                                  *)
(***************************************************************************)

\* hasDesc: some raw line contains "# Description:"
HasDescLine(rawLines) == \E i \in 1..Len(rawLines) : Contains(rawLines[i], sDescPrefix)

RECURSIVE DetectIndent_FirstLine(_, _)
DetectIndent_FirstLine(rawLines, i) ==
    IF i > Len(rawLines) THEN sIndent4
    ELSE LET l == rawLines[i]
             trimmed == TrimSpace(l)
             leading == LeadingWhitespace(l)
         IN  IF /\ trimmed # <<>>
                /\ ~HasPrefix(trimmed, sHash)
                /\ ~HasPrefix(ToLower(trimmed), kHostSp)
             THEN leading
             ELSE DetectIndent_FirstLine(rawLines, i + 1)

\* the indentation of the first non-empty, non-comment, non-Host raw line
\* that has leading whitespace; 4 spaces when there is none
RECURSIVE DetectIndent(_, _)
DetectIndent(rawLines, i) ==
    IF i > Len(rawLines) THEN sIndent4
    ELSE LET l == rawLines[i]
             trimmed == TrimSpace(l)
             leading == LeadingWhitespace(l)
         IN  IF /\ trimmed # <<>>
                /\ ~HasPrefix(trimmed, sHash)
                /\ ~HasPrefix(ToLower(trimmed), kHostSp)
                /\ Len(leading) > 0
             THEN leading
             ELSE DetectIndent(rawLines, i + 1)

ReplayLine_DropsComments(entry, line) ==
    LET trimmed == TrimSpace(line)
        parts == Fields(trimmed)
    IN  IF trimmed = <<>> \/ HasPrefix(trimmed, sHash) THEN <<>>
        ELSE IF Len(parts) < 2 THEN <<line>>
        ELSE LET directive == ToLower(parts[1])
                 originalIndent == LeadingWhitespace(line)
                 originalDirective == parts[1]
                 newValue == Join(Tail(parts), sSp)
             IN  IF directive = kHost THEN <<sHost \o sSp \o entry.Host>>
                 ELSE IF directive = kHostName
                      THEN IF newValue # entry.HostName
                           THEN <<originalIndent \o originalDirective \o sSp \o entry.HostName>>
                           ELSE <<line>>
                 ELSE IF directive = kUser
                      THEN IF entry.User # <<>>
                           THEN IF newValue # entry.User
                                THEN <<originalIndent \o originalDirective \o sSp \o entry.User>>
                                ELSE <<line>>
                           ELSE <<>>
                 ELSE IF directive = kPort
                      THEN IF entry.Port # <<>>
                           THEN IF newValue # entry.Port
                                THEN <<originalIndent \o originalDirective \o sSp \o entry.Port>>
                                ELSE <<line>>
                           ELSE <<>>
                 ELSE <<line>>

\* the lines written for one raw line of a passthrough entry
ReplayLine(entry, line) ==
    LET trimmed == TrimSpace(line)
        parts == Fields(trimmed)
    IN  IF trimmed = <<>> \/ HasPrefix(trimmed, sHash) THEN <<line>>
        ELSE IF Len(parts) < 2 THEN <<line>>
        ELSE LET directive == ToLower(parts[1])
                 originalIndent == LeadingWhitespace(line)
                 originalDirective == parts[1]
                 newValue == Join(Tail(parts), sSp)
             IN  IF directive = kHost THEN <<sHost \o sSp \o entry.Host>>
                 ELSE IF directive = kHostName
                      THEN IF newValue # entry.HostName
                           THEN <<originalIndent \o originalDirective \o sSp \o entry.HostName>>
                           ELSE <<line>>
                 ELSE IF directive = kUser
                      THEN IF entry.User # <<>>
                           THEN IF newValue # entry.User
                                THEN <<originalIndent \o originalDirective \o sSp \o entry.User>>
                                ELSE <<line>>
                           ELSE <<>>
                 ELSE IF directive = kPort
                      THEN IF entry.Port # <<>>
                           THEN IF newValue # entry.Port
                                THEN <<originalIndent \o originalDirective \o sSp \o entry.Port>>
                                ELSE <<line>>
                           ELSE <<>>
                 ELSE <<line>>

RECURSIVE ReplayRawLines(_, _)
ReplayRawLines(entry, i) ==
    IF i > Len(entry.RawLines) THEN <<>>
    ELSE ReplayLine(entry, entry.RawLines[i]) \o ReplayRawLines(entry, i + 1)

\* writtenHostname / writtenUser / writtenPort after the replay loop
WrittenDirective(rawLines, name) ==
    \E i \in 1..Len(rawLines) :
        LET trimmed == TrimSpace(rawLines[i])
            parts == Fields(trimmed)
        IN  /\ trimmed # <<>>
            /\ ~HasPrefix(trimmed, sHash)
            /\ Len(parts) >= 2
            /\ ToLower(parts[1]) = name

\* the lines writeEntry writes for an entry that has raw lines
WritePassthrough(entry) ==
    LET indent == DetectIndent(entry.RawLines, 1)
    IN  (IF entry.Description # <<>> /\ ~HasDescLine(entry.RawLines)
         THEN <<sDescPrefix \o sSp \o entry.Description>> ELSE <<>>)
        \o ReplayRawLines(entry, 1)
        \o (IF ~WrittenDirective(entry.RawLines, kHostName) /\ entry.HostName # <<>>
            THEN <<indent \o sHostName \o sSp \o entry.HostName>> ELSE <<>>)
        \o (IF ~WrittenDirective(entry.RawLines, kUser) /\ entry.User # <<>>
            THEN <<indent \o sUser \o sSp \o entry.User>> ELSE <<>>)
        \o (IF ~WrittenDirective(entry.RawLines, kPort) /\ entry.Port # <<>>
            THEN <<indent \o sPort \o sSp \o entry.Port>> ELSE <<>>)

\* WriteFresh with the Port line written before the User line
WriteFresh_PortBeforeUser(entry) ==
    (IF entry.Description # <<>>
     THEN <<sDescPrefix \o sSp \o entry.Description>> ELSE <<>>)
    \o <<sHost \o sSp \o entry.Host>>
    \o (IF entry.HostName # <<>>
        THEN <<sIndent4 \o sHostName \o sSp \o entry.HostName>> ELSE <<>>)
    \o (IF entry.Port # <<>>
        THEN <<sIndent4 \o sPort \o sSp \o entry.Port>> ELSE <<>>)
    \o (IF entry.User # <<>>
        THEN <<sIndent4 \o sUser \o sSp \o entry.User>> ELSE <<>>)

\* the lines writeEntry writes for an entry without raw lines
WriteFresh(entry) ==
    (IF entry.Description # <<>>
     THEN <<sDescPrefix \o sSp \o entry.Description>> ELSE <<>>)
    \o <<sHost \o sSp \o entry.Host>>
    \o (IF entry.HostName # <<>>
        THEN <<sIndent4 \o sHostName \o sSp \o entry.HostName>> ELSE <<>>)
    \o (IF entry.User # <<>>
        THEN <<sIndent4 \o sUser \o sSp \o entry.User>> ELSE <<>>)
    \o (IF entry.Port # <<>>
        THEN <<sIndent4 \o sPort \o sSp \o entry.Port>> ELSE <<>>)

writeEntry(entry) ==
    IF Len(entry.RawLines) > 0 THEN WritePassthrough(entry) ELSE WriteFresh(entry)

RECURSIVE WriteEntries_BlankAfterEach(_, _)
WriteEntries_BlankAfterEach(entries, i) ==
    IF i > Len(entries) THEN <<>>
    ELSE WriteLines(writeEntry(entries[i])) \o <<NL>>
         \o WriteEntries_BlankAfterEach(entries, i + 1)

RECURSIVE WriteEntries(_, _)
WriteEntries(entries, i) ==
    IF i > Len(entries) THEN <<>>
    ELSE WriteLines(writeEntry(entries[i]))
         \o (IF i < Len(entries) THEN <<NL>> ELSE <<>>)
         \o WriteEntries(entries, i + 1)

\* the bytes of the file after a WriteConfig that returns no error
WriteConfig(entries, standaloneComments) ==
    (IF Len(standaloneComments) > 0
     THEN WriteLines(standaloneComments)
          \o (IF Len(entries) > 0 THEN <<NL>> ELSE <<>>)
     ELSE <<>>)
    \o WriteEntries(entries, 1)

(***************************************************************************)
(* AddEntry, UpdateEntry, DeleteEntry (writer.go)                          *)
(***************************************************************************)

AddEntryFile(f, entry) ==
    LET p == ParseConfig(f)
    IN  IF p.err # NoError THEN f
        ELSE WriteConfig(Append(p.entries, entry), p.standaloneComments)

\* index of the first entry whose Host is oldHost, 0 when there is none
FirstIndex(entries, oldHost) ==
    IF \E i \in 1..Len(entries) : entries[i].Host = oldHost
    THEN CHOOSE i \in 1..Len(entries) :
            /\ entries[i].Host = oldHost
            /\ \A j \in 1..(i - 1) : entries[j].Host # oldHost
    ELSE 0

\* ReplaceFirst without the break: every entry whose Host matches is replaced
ReplaceFirst_NoBreak(entries, oldHost, newEntry) ==
    [i \in 1..Len(entries) |-> IF entries[i].Host = oldHost THEN newEntry ELSE entries[i]]

ReplaceFirst(entries, oldHost, newEntry) ==
    LET k == FirstIndex(entries, oldHost)
    IN  [i \in 1..Len(entries) |-> IF i = k THEN newEntry ELSE entries[i]]

UpdateEntryFile(f, oldHost, newEntry) ==
    LET p == ParseConfig(f)
    IN  IF p.err # NoError THEN f
        ELSE WriteConfig(ReplaceFirst(p.entries, oldHost, newEntry), p.standaloneComments)

\* RemoveHost with the comparison made on HostName instead of Host
RECURSIVE RemoveHost_ByHostName(_, _)
RemoveHost_ByHostName(entries, host) ==
    IF entries = <<>> THEN <<>>
    ELSE IF entries[1].HostName # host
         THEN <<entries[1]>> \o RemoveHost_ByHostName(Tail(entries), host)
         ELSE RemoveHost_ByHostName(Tail(entries), host)

RECURSIVE RemoveHost(_, _)
RemoveHost(entries, host) ==
    IF entries = <<>> THEN <<>>
    ELSE IF entries[1].Host # host
         THEN <<entries[1]>> \o RemoveHost(Tail(entries), host)
         ELSE RemoveHost(Tail(entries), host)

DeleteEntryFile(f, host) ==
    LET p == ParseConfig(f)
    IN  IF p.err # NoError THEN f
        ELSE WriteConfig(RemoveHost(p.entries, host), p.standaloneComments)

(***************************************************************************)
(* Inputs: config files assembled from chunks of lines, entries filled in  *)
(* by a caller, and the aliases a caller may name                          *)
(***************************************************************************)

\* largest number of chunks in an initial config file
MaxChunks == 2

\* number of operations applied to an initial config file
MaxOps == 1

\* number of operations applied when starting from a path with no file
MaxFreshOps == 2

lHostA == sHost \o sSp \o <<"a">>
lHostB == sHost \o sSp \o <<"b">>
lHostStar == sHost \o sSp \o sStar
lBlank == <<>>
lNote == <<"#", " ", "n">>
lSection == <<"#", "#", " ", "s">>
lDescD == sDescPrefix \o sSp \o <<"d">>

Chunks ==
    { \* a block with tab-indented directives
      << lHostA, sTab \o sHostName \o sSp \o <<"h">>, sTab \o sUser \o sSp \o <<"u">>,
         sTab \o sPort \o sSp \o <<"2">> >>,
      \* a block with 4-space indentation and an IdentityFile, followed by
      \* an unindented comment line
      << lHostB, sIndent4 \o sHostName \o sSp \o <<"g">>,
         sIndent4 \o sIdentityFile \o sSp \o <<"k">>, lNote >>,
      \* a block led by a description comment and followed by a blank line
      << lDescD, lHostA, sIndent4 \o sHostName \o sSp \o <<"h">>, lBlank >>,
      \* a block without HostName
      << lHostB, sIndent4 \o sUser \o sSp \o <<"u">> >>,
      \* a global options block with an unrecognized directive
      << lHostStar, sIndent4 \o <<"Opt">> \o sSp \o <<"y">> >>,
      \* a block with lower-case directives and two-space indentation
      << kHost \o sSp \o <<"b">>, <<" ", " ">> \o kHostName \o sSp \o <<"g">>,
         <<" ", " ">> \o kPort \o <<" ", " ">> \o <<"3">> >>,
      \* an unindented comment line
      << lNote >>,
      \* an unindented comment line followed by a directive
      << lNote, sIndent4 \o sUser \o sSp \o <<"v">> >>,
      \* a section comment and a blank line
      << lSection >>,
      << lBlank >> }

RECURSIVE Flatten(_)
Flatten(chunks) == IF chunks = <<>> THEN <<>> ELSE chunks[1] \o Flatten(Tail(chunks))

\* the config files the operations start from: every chunk sequence of at
\* most MaxChunks chunks, each line terminated by a newline
InitialFiles ==
    { WriteLines(Flatten(cs)) :
        cs \in UNION { [1..n -> Chunks] : n \in 0..MaxChunks } }

\* entries as the editor form or a test builds them (no raw lines)
FormEntries ==
    { NewEntry(<<"c">>, <<"h">>, <<"u">>, <<>>, <<>>, <<>>),
      NewEntry(<<"a">>, <<"g">>, <<>>, <<"3">>, <<>>, <<"e">>),
      NewEntry(<<"b">>, <<"h">>, <<"v">>, <<"2">>, <<"k">>, <<>>) }

Aliases == { <<"a">>, <<"b">>, <<"c">> }

\* the assignments a caller makes to a parsed entry before writing it back
EditChanges ==
    { <<"Description", <<"z">> >>, <<"Port", <<"9">> >>, <<"Port", <<>> >>,
      <<"User", <<"w">> >>, <<"User", <<>> >>, <<"HostName", <<"i">> >>,
      <<"IdentityFile", <<"j">> >> }

(***************************************************************************)
(* VisitTracker (storage/tracker.go)                                       *)
(***************************************************************************)

\* the symbols that occur in host names and tracker files, in increasing
\* byte value: Go compares strings byte by byte
ByteOrder ==
    <<"\t", "\n", " ", "#", "*", "+", "-", "0", "1", "2", "3", "4", "5", "6", "7",
      "8", "9", ":", "B", "a", "b", "c", "d", "e", "g", "h", "x">>

Byte(c) == CHOOSE i \in 1..Len(ByteOrder) : ByteOrder[i] = c

\* a < b on strings
StrLess(a, b) ==
    \E k \in 0..Len(a) :
        /\ k <= Len(b)
        /\ SubSeq(a, 1, k) = SubSeq(b, 1, k)
        /\ \/ (k = Len(a) /\ k < Len(b))
           \/ (k < Len(a) /\ k < Len(b) /\ Byte(a[k + 1]) < Byte(b[k + 1]))

Digits == <<"0", "1", "2", "3", "4", "5", "6", "7", "8", "9">>

IsDigit(c) == \E i \in 1..10 : Digits[i] = c

DigitValue(c) == (CHOOSE i \in 1..10 : Digits[i] = c) - 1

\* the verb %d of fmt.Fprintf
RECURSIVE Itoa(_)
Itoa(n) ==
    IF n < 0 THEN <<"-">> \o Itoa(0 - n)
    ELSE IF n < 10 THEN <<Digits[n + 1]>>
    ELSE Itoa(n \div 10) \o <<Digits[(n % 10) + 1]>>

RECURSIVE DigitsValue(_, _)
DigitsValue(s, acc) ==
    IF s = <<>> THEN acc ELSE DigitsValue(Tail(s), 10 * acc + DigitValue(s[1]))

\* strconv.Atoi: an optional sign and at least one decimal digit
Atoi(s) ==
    LET signed == s # <<>> /\ s[1] \in {"+", "-"}
        body == IF signed THEN Tail(s) ELSE s
    IN  IF body = <<>> \/ \E i \in 1..Len(body) : ~IsDigit(body[i])
        THEN [ok |-> FALSE, val |-> 0]
        ELSE [ok |-> TRUE,
              val |-> IF signed /\ s[1] = "-" THEN 0 - DigitsValue(body, 0)
                      ELSE DigitsValue(body, 0)]

\* strings.Split(s, sep) for a one-byte separator
RECURSIVE SplitFrom(_, _, _, _, _)
SplitFrom(s, sep, i, cur, acc) ==
    IF i > Len(s) THEN Append(acc, cur)
    ELSE IF s[i] = sep THEN SplitFrom(s, sep, i + 1, <<>>, Append(acc, cur))
    ELSE SplitFrom(s, sep, i + 1, Append(cur, s[i]), acc)

Split(s, sep) == SplitFrom(s, sep, 1, <<>>, <<>>)

\* a map without keys
NoCounts == [h \in {} |-> 0]

\* GetCount: the count of a host, 0 when the map has no such key
GetCount(counts, host) == IF host \in DOMAIN counts THEN counts[host] ELSE 0

\* vt.counts[host]++
IncrementCount(counts, host) ==
    [h \in DOMAIN counts \cup {host} |->
        IF h = host THEN GetCount(counts, host) + 1 ELSE counts[h]]

\* the comparison with the counts compared in ascending order
VisitLess_Ascending(x, y) ==
    IF x.count = y.count THEN StrLess(x.host, y.host) ELSE x.count < y.count

\* the less function of both sort.Slice calls: higher count first, equal
\* counts by host name
VisitLess(x, y) ==
    IF x.count = y.count THEN StrLess(x.host, y.host) ELSE x.count > y.count

\* sort.Slice: elements that compare equal are equal records here, so the
\* result does not depend on the algorithm
RECURSIVE InsertSorted(_, _)
InsertSorted(sorted, x) ==
    IF sorted = <<>> THEN <<x>>
    ELSE IF VisitLess(x, sorted[1]) THEN <<x>> \o sorted
    ELSE <<sorted[1]>> \o InsertSorted(Tail(sorted), x)

RECURSIVE SortSlice(_)
SortSlice(s) ==
    IF s = <<>> THEN <<>> ELSE InsertSorted(SortSlice(Tail(s)), s[1])

\* SortByVisits
SortByVisits(counts, hosts) ==
    LET hostsWithCounts ==
            [i \in 1..Len(hosts) |-> [host |-> hosts[i], count |-> GetCount(counts, hosts[i])]]
        sorted == SortSlice(hostsWithCounts)
    IN  [i \in 1..Len(sorted) |-> sorted[i].host]

\* the entries of the map in the order Save writes them
RECURSIVE MapEntries(_, _)
MapEntries(counts, keys) ==
    IF keys = {} THEN <<>>
    ELSE LET h == CHOOSE k \in keys : TRUE
         IN  InsertSorted(MapEntries(counts, keys \ {h}), [host |-> h, count |-> counts[h]])

\* Save: one line "host:count" per key
SaveFile(counts) ==
    LET entries == MapEntries(counts, DOMAIN counts)
    IN  WriteLines([i \in 1..Len(entries) |->
                       entries[i].host \o <<":">> \o Itoa(entries[i].count)])

\* the body of Load's loop for one line
LoadLine(counts, text) ==
    LET line == TrimSpace(text)
        parts == Split(line, ":")
    IN  IF line = <<>> THEN counts
        ELSE IF Len(parts) # 2 THEN counts
        ELSE LET host == TrimSpace(parts[1])
                 n == Atoi(TrimSpace(parts[2]))
             IN  IF ~n.ok THEN counts
                 ELSE [h \in DOMAIN counts \cup {host} |->
                          IF h = host THEN n.val ELSE counts[h]]

RECURSIVE LoadLines(_, _, _)
LoadLines(counts, lines, i) ==
    IF i > Len(lines) THEN counts
    ELSE LoadLines(LoadLine(counts, lines[i]), lines, i + 1)

\* Load: a missing file leaves the counts as they are
LoadFile(counts, f) ==
    IF f = NoFile THEN counts ELSE LoadLines(counts, ScanLines(f), 1)

(***************************************************************************)
(* State: the config file and the operations applied to it                 *)
(***************************************************************************)

VARIABLES
    file,     \* content of the config file, or NoFile
    before,   \* the file as it was before the last operation
    history,  \* the operations applied so far, with their arguments
    parsed,   \* what the caller's last ParseConfig call returned
    budget,   \* operations this run may apply
    procs,    \* the calls of mutation operations in progress, per process
    tracker,  \* the visit tracker, its file and the results of its calls
    ui        \* the model of the user interface

vars == <<file, before, history, parsed, budget, procs, tracker, ui>>

NoOp == [op |-> "none", host |-> <<>>, entry |-> NoEntry, index |-> 0,
         field |-> "", value |-> <<>>, proc |-> 0]

\* the last operation applied
Last == IF history = <<>> THEN NoOp ELSE history[Len(history)]

\* the processes that may call the mutation operations at the same time
Procs == {1, 2}

\* a process: where its call stands (pc), the operation called, the bytes
\* its ParseConfig read, the WriteString calls still to make, the offset of
\* its file descriptor, the error returned, whether it parsed before any
\* process opened the file for writing, and whether no other process was
\* writing when it opened the file
Idle == [pc |-> "idle", op |-> NoOp, read |-> <<>>, todo |-> <<>>, off |-> 0,
         err |-> NoError, parsedFirst |-> FALSE, alone |-> FALSE]

NoCalls == [p \in Procs |-> Idle]

\* a tracker that has not been used: the counts in memory, the tracker
\* file, the Increment calls made, the counts at the last Save, the counts
\* of a fresh tracker after Load, the argument and the result of the last
\* SortByVisits call, and the last call made
NoTracker == [counts |-> NoCounts, file |-> NoFile, visits |-> 0,
              saved |-> NoCounts, loaded |-> NoCounts,
              hosts |-> <<>>, sorted |-> <<>>, step |-> "none"]

\* the user interface before start-up: the entries of the model, the
\* entries the list shows, the search term, the selected index (from 0),
\* the mode, the entry the editor was opened on, the editor's error
\* message, the error of the model, the last key handled (or the handler it
\* led to), the mode that key was pressed in, the fields of the editor
\* form that Enter read, the aliases ssh was launched with, and the number
\* of calls that returned an error to the model
NoUI == [entries |-> <<>>, filtered |-> <<>>, searchTerm |-> <<>>, selected |-> 0,
         mode |-> "none", editing |-> NoEntry, errorMsg |-> "", err |-> NoError,
         event |-> "none", from |-> "none", form |-> NoEntry, ssh |-> <<>>,
         failures |-> 0]

NothingParsed == [entries |-> <<>>, standaloneComments |-> <<>>, err |-> NoError]

Init ==
    /\ file \in InitialFiles
    /\ before = file
    /\ history = <<>>
    /\ parsed = NothingParsed
    /\ procs = NoCalls
    /\ tracker = NoTracker
    /\ ui = NoUI
    /\ budget = MaxOps

InitFresh ==
    /\ file = NoFile
    /\ before = file
    /\ history = <<>>
    /\ parsed = NothingParsed
    /\ procs = NoCalls
    /\ tracker = NoTracker
    /\ ui = NoUI
    /\ budget = MaxFreshOps

AddEntry(entry) ==
    /\ Len(history) < budget
    /\ file' = AddEntryFile(file, entry)
    /\ before' = file
    /\ history' = Append(history, [NoOp EXCEPT !.op = "add", !.entry = entry])
    /\ UNCHANGED <<parsed, budget, procs, tracker, ui>>

UpdateEntry(oldHost, newEntry) ==
    /\ Len(history) < budget
    /\ file' = UpdateEntryFile(file, oldHost, newEntry)
    /\ before' = file
    /\ history' = Append(history, [NoOp EXCEPT !.op = "update", !.host = oldHost,
                                               !.entry = newEntry])
    /\ UNCHANGED <<parsed, budget, procs, tracker, ui>>

DeleteEntry(host) ==
    /\ Len(history) < budget
    /\ file' = DeleteEntryFile(file, host)
    /\ before' = file
    /\ history' = Append(history, [NoOp EXCEPT !.op = "delete", !.host = host])
    /\ UNCHANGED <<parsed, budget, procs, tracker, ui>>

\* ParseConfig followed by WriteConfig of what it returned
RewriteFile(f) ==
    LET p == ParseConfig(f)
    IN  WriteConfig(p.entries, p.standaloneComments)

Rewrite ==
    /\ Len(history) < budget
    /\ file' = RewriteFile(file)
    /\ before' = file
    /\ history' = Append(history, [NoOp EXCEPT !.op = "rewrite"])
    /\ UNCHANGED <<parsed, budget, procs, tracker, ui>>

\* entries[i].<field> = value
SetField(entry, field, value) ==
    CASE field = "HostName" -> [entry EXCEPT !.HostName = value]
      [] field = "User" -> [entry EXCEPT !.User = value]
      [] field = "Port" -> [entry EXCEPT !.Port = value]
      [] field = "IdentityFile" -> [entry EXCEPT !.IdentityFile = value]
      [] field = "Description" -> [entry EXCEPT !.Description = value]

\* ParseConfig, assignment to one field of one returned entry, WriteConfig
EditFile(f, i, field, value) ==
    LET p == ParseConfig(f)
    IN  WriteConfig([p.entries EXCEPT ![i] = SetField(@, field, value)],
                    p.standaloneComments)

EditEntry(i, field, value) ==
    /\ Len(history) < budget
    /\ file' = EditFile(file, i, field, value)
    /\ before' = file
    /\ history' = Append(history, [NoOp EXCEPT !.op = "edit", !.index = i,
                                               !.field = field, !.value = value])
    /\ UNCHANGED <<parsed, budget, procs, tracker, ui>>

\* a call of ParseConfig by a caller that keeps what it returns
ParseFile ==
    /\ Len(history) < budget
    /\ parsed' = ParseConfig(file)
    /\ before' = file
    /\ history' = Append(history, [NoOp EXCEPT !.op = "parse"])
    /\ UNCHANGED <<file, budget, procs, tracker, ui>>

(***************************************************************************)
(* The mutation operations as the steps a process takes: ParseConfig and   *)
(* the change of the list, os.Create, one file.WriteString per line, the   *)
(* return                                                                  *)
(***************************************************************************)

\* number of chunks in the config file concurrent calls start from
MaxRaceChunks == 1

RaceFiles ==
    { WriteLines(Flatten(cs)) :
        cs \in UNION { [1..n -> Chunks] : n \in 0..MaxRaceChunks } }

\* the calls the processes make
RaceOps ==
    { [NoOp EXCEPT !.op = "add",
                   !.entry = NewEntry(<<"c">>, <<"h">>, <<"u">>, <<>>, <<>>, <<>>)],
      [NoOp EXCEPT !.op = "update", !.host = <<"a">>,
                   !.entry = NewEntry(<<"a">>, <<"g">>, <<>>, <<"3">>, <<>>, <<"e">>)],
      [NoOp EXCEPT !.op = "delete", !.host = <<"b">>] }

ErrParse == "failed to parse config"
ErrWrite == "failed to write entry"

\* the list an operation hands to WriteConfig
ApplyOp(o, entries) ==
    CASE o.op = "add" -> Append(entries, o.entry)
      [] o.op = "update" -> ReplaceFirst(entries, o.host, o.entry)
      [] o.op = "delete" -> RemoveHost(entries, o.host)

\* the file an operation leaves when it runs alone on the file f
ResultOf(o, f) ==
    CASE o.op = "add" -> AddEntryFile(f, o.entry)
      [] o.op = "update" -> UpdateEntryFile(f, o.host, o.entry)
      [] o.op = "delete" -> DeleteEntryFile(f, o.host)

\* the arguments of the file.WriteString calls WriteConfig makes, in order:
\* every call writes one line and its newline
WriteCalls(entries, standaloneComments) ==
    LET lines == ScanLines(WriteConfig(entries, standaloneComments))
    IN  [i \in 1..Len(lines) |-> lines[i] \o <<NL>>]

\* a write that leaves the descriptor's offset where it was
WriteAt_NoAdvance(f, off, bytes) ==
    bytes \o SubSeq(f, Len(bytes) + 1, Len(f))

\* a write of bytes at the offset off of a descriptor: a gap between the end
\* of the file and the offset reads as zero bytes
WriteAt(f, off, bytes) ==
    LET gap == [i \in 1..(off - Len(f)) |-> "\\0"]
        kept == IF off <= Len(f) THEN SubSeq(f, 1, off) ELSE f \o gap
    IN  kept \o bytes \o SubSeq(f, off + Len(bytes) + 1, Len(f))

\* os.Create without O_TRUNC
Truncate_Keep(f) == IF f = NoFile THEN <<>> ELSE f

\* os.Create: the file exists and is empty afterwards
Truncate(f) == <<>>

\* the call enters the operation: ParseConfig and the change of the list
Begin(p, o) ==
    /\ procs[p].pc = "idle"
    /\ LET r == ParseConfig(file)
       IN  procs' = [procs EXCEPT ![p] =
              IF r.err # NoError
              THEN [@ EXCEPT !.pc = "returned", !.op = [o EXCEPT !.proc = p],
                             !.read = file, !.err = ErrParse]
              ELSE [@ EXCEPT !.pc = "parsed", !.op = [o EXCEPT !.proc = p],
                             !.read = file,
                             !.todo = WriteCalls(ApplyOp(o, r.entries),
                                                 r.standaloneComments),
                             !.parsedFirst =
                                 \A q \in Procs : procs[q].pc \in {"idle", "parsed"}]]
    /\ UNCHANGED <<file, before, history, parsed, budget, tracker, ui>>

\* os.Create in WriteConfig
Create(p) ==
    /\ procs[p].pc = "parsed"
    /\ file' = Truncate(file)
    /\ procs' = [procs EXCEPT ![p] =
          [@ EXCEPT !.pc = "writing", !.off = 0,
                    !.alone = \A q \in Procs \ {p} : procs[q].pc # "writing"]]
    /\ UNCHANGED <<before, history, parsed, budget, tracker, ui>>

\* the next file.WriteString call
WriteString(p) ==
    /\ procs[p].pc = "writing"
    /\ procs[p].todo # <<>>
    /\ file' = WriteAt(file, procs[p].off, Head(procs[p].todo))
    /\ procs' = [procs EXCEPT ![p] =
          [@ EXCEPT !.off = @ + Len(Head(procs[p].todo)), !.todo = Tail(@)]]
    /\ UNCHANGED <<before, history, parsed, budget, tracker, ui>>

\* WriteConfig and the operation return nil
Return(p) ==
    /\ procs[p].pc = "writing"
    /\ procs[p].todo = <<>>
    /\ procs' = [procs EXCEPT ![p] = [@ EXCEPT !.pc = "returned"]]
    /\ history' = Append(history, procs[p].op)
    /\ UNCHANGED <<file, before, parsed, budget, tracker, ui>>

\* the process is stopped between two writes, or the next write fails and
\* the operation returns the error
Interrupt(p, how) ==
    /\ procs[p].pc = "writing"
    /\ procs[p].todo # <<>>
    /\ procs' = [procs EXCEPT ![p] =
          IF how = "killed" THEN [@ EXCEPT !.pc = "killed"]
          ELSE [@ EXCEPT !.pc = "returned", !.err = ErrWrite]]
    /\ UNCHANGED <<file, before, history, parsed, budget, tracker, ui>>

\* two processes call mutation operations on the same path
InitRace ==
    /\ file \in RaceFiles
    /\ before = file
    /\ history = <<>>
    /\ parsed = NothingParsed
    /\ budget = 0
    /\ procs = NoCalls
    /\ tracker = NoTracker
    /\ ui = NoUI

\* the processes are interchangeable: process 1 is the one that calls first
NextRace ==
    \/ \E p \in Procs, o \in RaceOps :
          /\ \A q \in Procs : q < p => procs[q].pc # "idle"
          /\ Begin(p, o)
    \/ \E p \in Procs : Create(p)
    \/ \E p \in Procs : WriteString(p)
    \/ \E p \in Procs : Return(p)

SpecRace == InitRace /\ [][NextRace]_vars

\* one process calls a mutation operation and may be interrupted while it
\* writes; another process calls ParseConfig at some moment
Writer == 1

InitCrash ==
    /\ file \in RaceFiles
    /\ before = file
    /\ history = <<>>
    /\ parsed = NothingParsed
    /\ budget = 1
    /\ procs = NoCalls
    /\ tracker = NoTracker
    /\ ui = NoUI

NextCrash ==
    \/ \E o \in RaceOps : Begin(Writer, o)
    \/ Create(Writer)
    \/ WriteString(Writer)
    \/ Return(Writer)
    \/ \E how \in {"killed", "write error"} : Interrupt(Writer, how)
    \/ ParseFile

SpecCrash == InitCrash /\ [][NextCrash]_vars

\* one operation on an initial config file
InitOnce ==
    /\ file \in InitialFiles
    /\ before = file
    /\ history = <<>>
    /\ parsed = NothingParsed
    /\ procs = NoCalls
    /\ tracker = NoTracker
    /\ ui = NoUI
    /\ budget = 1

\* the mutation operations of the package
Next ==
    \/ \E e \in FormEntries : AddEntry(e)
    \/ \E h \in Aliases, e \in FormEntries : UpdateEntry(h, e)
    \/ \E h \in Aliases : DeleteEntry(h)

Spec == Init /\ [][Next]_vars

\* the same operations on a path where no file exists yet
SpecFresh == InitFresh /\ [][Next]_vars

\* entries without raw lines, every field empty or not; the alias is never
\* empty (EditorModel.Validate refuses an empty Host)
FreshEntries ==
    { NewEntry(<<"c">>, hn, u, p, i, d) :
        hn \in {<<>>, <<"h">>}, u \in {<<>>, <<"u">>}, p \in {<<>>, <<"2">>},
        i \in {<<>>, <<"k">>}, d \in {<<>>, <<"e">>} }

\* AddEntry calls with such entries, starting from a path with no file
NextAddFresh == \E e \in FreshEntries : AddEntry(e)

SpecAddFresh == InitFresh /\ [][NextAddFresh]_vars

\* one UpdateEntry or DeleteEntry call on an initial config file
NextByAlias ==
    \/ \E h \in Aliases, e \in FormEntries : UpdateEntry(h, e)
    \/ \E h \in Aliases : DeleteEntry(h)

SpecByAlias == InitOnce /\ [][NextByAlias]_vars

\* a caller that parses, optionally edits one field, and writes back
NextEdit ==
    \/ Rewrite
    \/ \E i \in 1..Len(ParseConfig(file).entries), c \in EditChanges :
          EditEntry(i, c[1], c[2])

SpecEdit == Init /\ [][NextEdit]_vars

\* one rewrite or one edit of an initial config file
SpecEditOnce == InitOnce /\ [][NextEdit]_vars

\* config files with a block that has no indented line: no line after the
\* Host line, only a blank line, a directive in column 0, and a directive
\* in column 0 followed by an indented one
UnindentedFiles ==
    { WriteLines(<<lHostStar>>),
      WriteLines(<<lHostStar, lBlank>>),
      WriteLines(<<lHostA, sHostName \o sSp \o <<"h">> >>),
      WriteLines(<<lHostA, sHostName \o sSp \o <<"h">>, sTab \o sUser \o sSp \o <<"u">> >>) }

InitAppend ==
    /\ file \in InitialFiles \cup UnindentedFiles
    /\ before = file
    /\ history = <<>>
    /\ parsed = NothingParsed
    /\ procs = NoCalls
    /\ tracker = NoTracker
    /\ ui = NoUI
    /\ budget = 1

\* one rewrite or one edit of such a file
SpecAppend == InitAppend /\ [][NextEdit]_vars

\* a caller that only parses
NextParse == ParseFile

SpecParse == Init /\ [][NextParse]_vars

\* config files that hold a line the scanner cannot deliver
UnreadableFiles == { f \o <<"#", " ", sLongRun, NL>> : f \in InitialFiles }

\* the states of the path ParseConfig may be called on
InitOpen ==
    /\ file \in InitialFiles \cup UnreadableFiles \cup {NoFile, CannotOpen}
    /\ before = file
    /\ history = <<>>
    /\ parsed = NothingParsed
    /\ procs = NoCalls
    /\ tracker = NoTracker
    /\ ui = NoUI
    /\ budget = MaxOps

SpecOpen == InitOpen /\ [][NextParse]_vars

\* largest number of lines before the Host line of a block
MaxComments == 3

\* the lines that may stand before a Host line
CommentLines ==
    { lNote, lDescD, lSection, lBlank, sHash, sHash \o <<"m">>,
      sSp \o sDescPrefix \o sSp \o sSp \o <<"e">> \o sSp }

\* a file that holds one block led by comment lines
DescFiles ==
    { WriteLines(cs \o <<lHostA, sIndent4 \o sHostName \o sSp \o <<"h">> >>) :
        cs \in UNION { [1..n -> CommentLines] : n \in 0..MaxComments } }

InitDesc ==
    /\ file \in DescFiles
    /\ before = file
    /\ history = <<>>
    /\ parsed = NothingParsed
    /\ procs = NoCalls
    /\ tracker = NoTracker
    /\ ui = NoUI
    /\ budget = 1

SpecDesc == InitDesc /\ [][NextParse]_vars

(***************************************************************************)
(* The calls on a VisitTracker                                             *)
(***************************************************************************)

\* number of Increment calls
MaxVisits == 3

\* length of the list handed to SortByVisits
MaxHosts == 3

\* the host names the tracker is called with
TrackHosts ==
    { <<"a">>, <<"b">>, <<"B">>, <<"a", ":", "b">>, <<"a", " ", "b">> }

\* the counts the tracker starts with: none, or nine visits of one host
InitialCounts == { NoCounts, [h \in {<<"a">>} |-> 9] }

InitTracker ==
    /\ file = NoFile
    /\ before = file
    /\ history = <<>>
    /\ parsed = NothingParsed
    /\ budget = 0
    /\ procs = NoCalls
    /\ tracker \in { [NoTracker EXCEPT !.counts = c] : c \in InitialCounts }
    /\ ui = NoUI

Increment(host) ==
    /\ tracker.visits < MaxVisits
    /\ tracker' = [tracker EXCEPT !.counts = IncrementCount(@, host),
                                  !.visits = @ + 1,
                                  !.step = "increment"]
    /\ UNCHANGED <<file, before, history, parsed, budget, procs, ui>>

Save ==
    /\ tracker' = [tracker EXCEPT !.file = SaveFile(tracker.counts),
                                  !.saved = tracker.counts,
                                  !.step = "save"]
    /\ UNCHANGED <<file, before, history, parsed, budget, procs, ui>>

\* Load of a new tracker on the same path
Load ==
    /\ tracker' = [tracker EXCEPT !.loaded = LoadFile(NoCounts, tracker.file),
                                  !.step = "load"]
    /\ UNCHANGED <<file, before, history, parsed, budget, procs, ui>>

SortHosts(hosts) ==
    /\ tracker' = [tracker EXCEPT !.hosts = hosts,
                                  !.sorted = SortByVisits(tracker.counts, hosts),
                                  !.step = "sort"]
    /\ UNCHANGED <<file, before, history, parsed, budget, procs, ui>>

\* Increment calls and then one SortByVisits call
NextSort ==
    \/ \E h \in TrackHosts : tracker.step # "sort" /\ Increment(h)
    \/ \E hosts \in UNION { [1..n -> TrackHosts] : n \in 0..MaxHosts } :
          tracker.step # "sort" /\ SortHosts(hosts)

SpecSort == InitTracker /\ [][NextSort]_vars

\* Increment calls, Save, and Load into a new tracker
NextTracker ==
    \/ \E h \in TrackHosts : Increment(h)
    \/ Save
    \/ Load

SpecTracker == InitTracker /\ [][NextTracker]_vars

(***************************************************************************)
(* The user interface (ui): the list, the editor and the key handlers      *)
(***************************************************************************)

\* number of saves and confirmed deletes in one run
MaxUIOps == 1

\* the tracker files the program may find at start-up
UITrackerFiles ==
    { NoFile,
      SaveFile([h \in {<<"b">>, <<"c">>} |-> IF h = <<"b">> THEN 2 ELSE 1]) }

\* number of chunks of a config file the program is started on
MaxUIChunks == 1

\* the chunks of those files: a block led by a description, a block with
\* lower-case directives and a global options block
UIChunks ==
    { << lDescD, lHostA, sIndent4 \o sHostName \o sSp \o <<"h">>, lBlank >>,
      << kHost \o sSp \o <<"b">>, <<" ", " ">> \o kHostName \o sSp \o <<"g">>,
         <<" ", " ">> \o kPort \o <<" ", " ">> \o <<"3">> >>,
      << lHostStar, sIndent4 \o <<"Opt">> \o sSp \o <<"y">> >> }

UIFiles ==
    { WriteLines(Flatten(cs)) :
        cs \in UNION { [1..n -> UIChunks] : n \in 0..MaxUIChunks } }

\* the keys that cancel a confirmation
CancelKeys == { "n", "N", "esc" }

\* VisitTracker.ClearAll: every count is dropped (the tracker file is saved
\* by the caller's step)
ClearAllCounts(counts) == NoCounts

\* what the user may have typed into the search input
SearchTerms == { <<>>, <<"g">> }

\* what the user may have typed into the editor form
Forms ==
    { NewEntry(<<"c">>, <<"h">>, <<"u">>, <<>>, <<>>, <<>>),
      NewEntry(<<"a">>, <<"g">>, <<>>, <<"3">>, <<>>, <<"e">>),
      NewEntry(<<>>, <<"h">>, <<>>, <<>>, <<>>, <<>>),
      NewEntry(<<"c">>, <<>>, <<>>, <<>>, <<>>, <<>>),
      NewEntry(sStar, <<>>, <<"u">>, <<>>, <<>>, <<>>) }

\* the entries shown: Host * is left out
DisplayEntries(entries) == SelectSeq(entries, LAMBDA e : e.Host # sStar)

getHostNames(entries) == [i \in 1..Len(entries) |-> entries[i].Host]

\* entryMap[host]: the last entry of the list with that alias
EntryMap(entries, host) ==
    entries[CHOOSE i \in 1..Len(entries) :
               /\ entries[i].Host = host
               /\ \A j \in (i + 1)..Len(entries) : entries[j].Host # host]

sortEntriesByHosts(entries, sortedHosts) ==
    LET known == SelectSeq(sortedHosts,
                           LAMBDA h : \E i \in 1..Len(entries) : entries[i].Host = h)
    IN  [i \in 1..Len(known) |-> EntryMap(entries, known[i])]
        \o SelectSeq(entries,
                     LAMBDA e : \A i \in 1..Len(sortedHosts) : sortedHosts[i] # e.Host)

\* the display entries in the order of the list
SortedEntries(entries, counts) ==
    LET displayEntries == DisplayEntries(entries)
    IN  sortEntriesByHosts(displayEntries,
                           SortByVisits(counts, getHostNames(displayEntries)))

\* the test of ApplyFilter on one entry
Matches(e, term) ==
    \/ Contains(ToLower(e.Host), ToLower(term))
    \/ Contains(ToLower(e.HostName), ToLower(term))
    \/ Contains(ToLower(e.User), ToLower(term))
    \/ Contains(ToLower(e.Description), ToLower(term))

\* ApplyFilter without the adjustment of the selected index
ApplyFilter_KeepsSelected(m) ==
    IF m.searchTerm = <<>>
    THEN [m EXCEPT !.filtered = m.entries, !.selected = 0]
    ELSE [m EXCEPT !.filtered = SelectSeq(m.entries, LAMBDA e : Matches(e, m.searchTerm))]

ApplyFilter(m) ==
    IF m.searchTerm = <<>>
    THEN [m EXCEPT !.filtered = m.entries, !.selected = 0]
    ELSE LET filtered == SelectSeq(m.entries, LAMBDA e : Matches(e, m.searchTerm))
         IN  [m EXCEPT !.filtered = filtered,
                       !.selected = IF m.selected >= Len(filtered)
                                    THEN (IF Len(filtered) - 1 > 0 THEN Len(filtered) - 1 ELSE 0)
                                    ELSE m.selected]

SetEntries(m, entries) == ApplyFilter([m EXCEPT !.entries = entries])

SetSearchTerm(m, term) == ApplyFilter([m EXCEPT !.searchTerm = term])

SetSelected(m, index) ==
    IF index >= 0 /\ index < Len(m.filtered) THEN [m EXCEPT !.selected = index]
    ELSE IF index < 0 THEN [m EXCEPT !.selected = 0]
    ELSE IF index >= Len(m.filtered) /\ Len(m.filtered) > 0
         THEN [m EXCEPT !.selected = Len(m.filtered) - 1]
    ELSE m

HasSelected(m) ==
    ~(Len(m.filtered) = 0 \/ m.selected < 0 \/ m.selected >= Len(m.filtered))

GetSelected(m) == IF HasSelected(m) THEN m.filtered[m.selected + 1] ELSE NoEntry

\* EditorModel.Validate: the error message, "" for a valid form
Validate(form) ==
    IF form.Host = <<>> THEN "Host alias is required"
    ELSE IF form.Host # sStar /\ form.HostName = <<>> THEN "HostName is required"
    ELSE ""

\* the index of the first entry of the list with the alias, -1 when none
IndexOfHost(entries, host) ==
    IF \E i \in 1..Len(entries) : entries[i].Host = host
    THEN (CHOOSE i \in 1..Len(entries) :
             /\ entries[i].Host = host
             /\ \A j \in 1..(i - 1) : entries[j].Host # host) - 1
    ELSE 0 - 1

\* the program starts on a config file and a tracker file
InitUI ==
    /\ file \in UIFiles
    /\ before = file
    /\ history = <<>>
    /\ parsed = NothingParsed
    /\ budget = MaxUIOps
    /\ procs = NoCalls
    /\ tracker \in { [NoTracker EXCEPT !.file = f] : f \in UITrackerFiles }
    /\ ui = NoUI

\* InitialModel
StartUp ==
    /\ ui.mode = "none"
    /\ ParseConfig(file).err = NoError
    /\ tracker' = [tracker EXCEPT !.counts = LoadFile(NoCounts, tracker.file),
                                  !.step = "load"]
    /\ LET sortedEntries == SortedEntries(ParseConfig(file).entries, tracker'.counts)
       IN  ui' = [NoUI EXCEPT !.entries = sortedEntries, !.filtered = sortedEntries,
                              !.mode = "list", !.event = "start", !.from = "none"]
    /\ UNCHANGED <<file, before, history, parsed, budget, procs>>

\* j or down in list mode
KeyDown ==
    /\ ui.mode = "list"
    /\ ui' = [SetSelected(ui, ui.selected + 1) EXCEPT !.event = "j", !.from = ui.mode]
    /\ UNCHANGED <<file, before, history, parsed, budget, procs, tracker>>

\* k or up in list mode
KeyUp ==
    /\ ui.mode = "list"
    /\ ui' = [(IF ui.selected > 0 THEN SetSelected(ui, ui.selected - 1) ELSE ui)
                 EXCEPT !.event = "k", !.from = ui.mode]
    /\ UNCHANGED <<file, before, history, parsed, budget, procs, tracker>>

\* / in list mode
KeySlash ==
    /\ ui.mode = "list"
    /\ ui' = [ui EXCEPT !.mode = "search", !.event = "/", !.from = ui.mode]
    /\ UNCHANGED <<file, before, history, parsed, budget, procs, tracker>>

\* a key in search mode that changes the search input to term
SearchType(term) ==
    /\ ui.mode = "search"
    /\ ui' = [SetSearchTerm(ui, term) EXCEPT !.event = "type", !.from = ui.mode]
    /\ UNCHANGED <<file, before, history, parsed, budget, procs, tracker>>

SearchEnter ==
    /\ ui.mode = "search"
    /\ ui' = [ui EXCEPT !.mode = "list", !.event = "enter", !.from = ui.mode]
    /\ UNCHANGED <<file, before, history, parsed, budget, procs, tracker>>

SearchEsc_KeepTerm ==
    /\ ui.mode = "search"
    /\ ui' = [ui EXCEPT !.mode = "list", !.event = "esc", !.from = ui.mode]
    /\ UNCHANGED <<file, before, history, parsed, budget, procs, tracker>>

SearchEsc ==
    /\ ui.mode = "search"
    /\ ui' = [SetSearchTerm(ui, <<>>) EXCEPT !.mode = "list", !.event = "esc", !.from = ui.mode]
    /\ UNCHANGED <<file, before, history, parsed, budget, procs, tracker>>

\* KeyA with the error of the model reset
KeyA_ClearsError ==
    /\ ui.mode = "list"
    /\ ui' = [ui EXCEPT !.mode = "add", !.editing = NoEntry, !.errorMsg = "", !.form = NoEntry,
                        !.err = NoError, !.event = "a", !.from = ui.mode]
    /\ UNCHANGED <<file, before, history, parsed, budget, procs, tracker>>

\* a in list mode
KeyA ==
    /\ ui.mode = "list"
    /\ ui' = [ui EXCEPT !.mode = "add", !.editing = NoEntry, !.errorMsg = "", !.form = NoEntry,
                        !.event = "a", !.from = ui.mode]
    /\ UNCHANGED <<file, before, history, parsed, budget, procs, tracker>>

\* e in list mode
KeyE ==
    /\ ui.mode = "list"
    /\ ui' = IF HasSelected(ui)
             THEN [ui EXCEPT !.mode = "edit", !.editing = GetSelected(ui),
                             !.errorMsg = "", !.form = NoEntry, !.event = "e",
                             !.from = ui.mode]
             ELSE [ui EXCEPT !.event = "e", !.from = ui.mode]
    /\ UNCHANGED <<file, before, history, parsed, budget, procs, tracker>>

\* KeyD without the test that an entry is selected
KeyD_Unselected ==
    /\ ui.mode = "list"
    /\ ui' = [ui EXCEPT !.mode = "delete", !.event = "d", !.from = ui.mode]
    /\ UNCHANGED <<file, before, history, parsed, budget, procs, tracker>>

\* d in list mode
KeyD ==
    /\ ui.mode = "list"
    /\ ui' = IF HasSelected(ui)
             THEN [ui EXCEPT !.mode = "delete", !.event = "d", !.from = ui.mode]
             ELSE [ui EXCEPT !.event = "d", !.from = ui.mode]
    /\ UNCHANGED <<file, before, history, parsed, budget, procs, tracker>>

\* esc in edit or add mode
EditorEsc ==
    /\ ui.mode \in {"edit", "add"}
    /\ ui' = [ui EXCEPT !.mode = "list", !.editing = NoEntry, !.errorMsg = "", !.form = NoEntry,
                        !.event = "esc", !.from = ui.mode]
    /\ UNCHANGED <<file, before, history, parsed, budget, procs, tracker>>

\* the list after a reload of the config file
Reloaded(m, f, counts) == SetEntries(m, SortedEntries(ParseConfig(f).entries, counts))

\* enter in edit or add mode with the form filled in: Validate, saveEntry
EditorEnter(form) ==
    /\ ui.mode \in {"edit", "add"}
    /\ (Validate(form) # "" \/ Len(history) < budget)
    /\ IF Validate(form) # ""
       THEN /\ ui' = [ui EXCEPT !.errorMsg = Validate(form), !.form = form,
                                !.event = "enter", !.from = ui.mode]
            /\ UNCHANGED <<file, before, history>>
       ELSE LET newFile == IF ui.mode = "add" THEN AddEntryFile(file, form)
                           ELSE IF ui.editing # NoEntry
                                THEN UpdateEntryFile(file, ui.editing.Host, form)
                                ELSE file
                reloaded == Reloaded(ui, newFile, tracker.counts)
                i == IndexOfHost(reloaded.entries, form.Host)
            IN  /\ file' = newFile
                /\ before' = file
                /\ history' = Append(history,
                      [NoOp EXCEPT !.op = IF ui.mode = "add" THEN "add" ELSE "update",
                                   !.host = ui.editing.Host, !.entry = form])
                /\ ui' = [(IF i >= 0 THEN SetSelected(reloaded, i) ELSE reloaded)
                             EXCEPT !.mode = "list", !.editing = NoEntry,
                                    !.errorMsg = "", !.form = NoEntry,
                                    !.event = "save", !.from = ui.mode]
    /\ UNCHANGED <<parsed, budget, procs, tracker>>

\* y or Y in delete mode: confirmDelete
DeleteYes ==
    /\ ui.mode = "delete"
    /\ (~HasSelected(ui) \/ Len(history) < budget)
    /\ IF ~HasSelected(ui)
       THEN /\ ui' = [ui EXCEPT !.mode = "list", !.event = "y", !.from = ui.mode]
            /\ UNCHANGED <<file, before, history>>
       ELSE LET newFile == DeleteEntryFile(file, GetSelected(ui).Host)
                reloaded == Reloaded(ui, newFile, tracker.counts)
                n == Len(reloaded.entries)
            IN  /\ file' = newFile
                /\ before' = file
                /\ history' = Append(history,
                      [NoOp EXCEPT !.op = "delete", !.host = GetSelected(ui).Host])
                /\ ui' = [(IF reloaded.selected >= n /\ n > 0
                           THEN SetSelected(reloaded, n - 1)
                           ELSE IF n = 0 THEN SetSelected(reloaded, 0)
                           ELSE reloaded)
                             EXCEPT !.mode = "list", !.event = "delete", !.from = ui.mode]
    /\ UNCHANGED <<parsed, budget, procs, tracker>>

\* n, N or esc in delete mode
DeleteNo(key) ==
    /\ ui.mode = "delete"
    /\ ui' = [ui EXCEPT !.mode = "list", !.event = key, !.from = ui.mode]
    /\ UNCHANGED <<file, before, history, parsed, budget, procs, tracker>>

\* x in list mode
KeyX ==
    /\ ui.mode = "list"
    /\ ui' = [ui EXCEPT !.mode = "clear", !.event = "x", !.from = ui.mode]
    /\ UNCHANGED <<file, before, history, parsed, budget, procs, tracker>>

\* y or Y in clear-visits mode: confirmClearVisits
ClearYes ==
    /\ ui.mode = "clear"
    /\ tracker' = [tracker EXCEPT !.counts = ClearAllCounts(tracker.counts),
                                  !.file = SaveFile(ClearAllCounts(tracker.counts)),
                                  !.step = "clear"]
    /\ LET sortedEntries ==
               sortEntriesByHosts(ui.entries,
                                  SortByVisits(tracker'.counts, getHostNames(ui.entries)))
       IN  ui' = [SetSelected(SetEntries(ui, sortedEntries), 0)
                     EXCEPT !.mode = "list", !.event = "clear", !.from = ui.mode]
    /\ UNCHANGED <<file, before, history, parsed, budget, procs>>

\* n, N or esc in clear-visits mode
ClearNo(key) ==
    /\ ui.mode = "clear"
    /\ ui' = [ui EXCEPT !.mode = "list", !.event = key, !.from = ui.mode]
    /\ UNCHANGED <<file, before, history, parsed, budget, procs, tracker>>

\* Model.View: the screen rendered
View(m) ==
    IF m.err # NoError THEN "error"
    ELSE CASE m.mode = "search" -> "search"
           [] m.mode \in {"edit", "add"} -> "editor"
           [] m.mode = "delete" -> "delete confirm"
           [] m.mode = "clear" -> "clear visits confirm"
           [] OTHER -> "list"

\* the keys ListModel.Update acts on
MoveKeys == { "j", "k" }

\* ListModel.Update on a key message
ListUpdate(m, key) ==
    IF key = "k" THEN (IF m.selected > 0 THEN [m EXCEPT !.selected = @ - 1] ELSE m)
    ELSE IF key = "j"
         THEN (IF m.selected < Len(m.filtered) - 1 THEN [m EXCEPT !.selected = @ + 1] ELSE m)
    ELSE m

\* j or k in delete or clear-visits mode: handleKeyPress does not handle
\* the key and Update passes it on to the list
ConfirmMove(key) ==
    /\ ui.mode \in {"delete", "clear"}
    /\ ui' = [ListUpdate(ui, key) EXCEPT !.event = key, !.from = ui.mode]
    /\ UNCHANGED <<file, before, history, parsed, budget, procs, tracker>>

\* ListEnter with Save called before Increment
ListEnter_SaveBeforeIncrement ==
    /\ ui.mode = "list"
    /\ IF HasSelected(ui)
       THEN LET host == GetSelected(ui).Host
                counts == IncrementCount(tracker.counts, host)
            IN  /\ tracker' = [tracker EXCEPT !.counts = counts,
                                              !.file = SaveFile(tracker.counts),
                                              !.saved = tracker.counts,
                                              !.step = "save"]
                /\ ui' = [ui EXCEPT !.mode = "ssh", !.ssh = Append(@, host),
                                    !.event = "connect", !.from = ui.mode]
       ELSE /\ ui' = [ui EXCEPT !.event = "enter", !.from = ui.mode]
            /\ UNCHANGED tracker
    /\ UNCHANGED <<file, before, history, parsed, budget, procs>>

\* enter in list mode: connectToHost when an entry is selected, with a Save
\* that succeeds; the program hands the terminal to ssh and quits after it
ListEnter ==
    /\ ui.mode = "list"
    /\ IF HasSelected(ui)
       THEN LET host == GetSelected(ui).Host
                counts == IncrementCount(tracker.counts, host)
            IN  /\ tracker' = [tracker EXCEPT !.counts = counts,
                                              !.file = SaveFile(counts),
                                              !.saved = counts,
                                              !.step = "save"]
                /\ ui' = [ui EXCEPT !.mode = "ssh", !.ssh = Append(@, host),
                                    !.event = "connect", !.from = ui.mode]
       ELSE /\ ui' = [ui EXCEPT !.event = "enter", !.from = ui.mode]
            /\ UNCHANGED tracker
    /\ UNCHANGED <<file, before, history, parsed, budget, procs>>

NextUI ==
    \/ StartUp
    \/ KeyDown
    \/ KeyUp
    \/ KeySlash
    \/ \E term \in SearchTerms : SearchType(term)
    \/ SearchEnter
    \/ SearchEsc
    \/ KeyA
    \/ KeyE
    \/ KeyD
    \/ EditorEsc
    \/ \E form \in Forms : EditorEnter(form)
    \/ DeleteYes
    \/ \E key \in CancelKeys : DeleteNo(key)
    \/ KeyX
    \/ ClearYes
    \/ \E key \in CancelKeys : ClearNo(key)
    \/ \E key \in MoveKeys : ConfirmMove(key)
    \/ ListEnter

SpecUI == InitUI /\ [][NextUI]_vars

(***************************************************************************)
(* The user interface when a call returns an error                         *)
(***************************************************************************)

\* number of calls that return an error in one run
MaxUIFailures == 1

ErrCreate == "failed to create config file"
ErrCreateTracker == "failed to create tracker file"
ErrWriteTracker == "failed to write tracker entry"

\* the files a sequence of line writes leaves when one of them fails
StrictLinePrefixes(f) ==
    LET lines == ScanLines(f)
    IN  { WriteLines(SubSeq(lines, 1, n)) : n \in 0..(Len(lines) - 1) }

\* how VisitTracker.Save fails: os.Create fails and the file is as it was,
\* or a Fprintf fails and the file holds the lines written before it
FailedSaves(counts, old) ==
    { [file |-> old, err |-> ErrCreateTracker] }
    \cup { [file |-> f, err |-> ErrWriteTracker] : f \in StrictLinePrefixes(SaveFile(counts)) }

\* how AddEntry, UpdateEntry and DeleteEntry fail: ParseConfig fails or
\* os.Create fails and the file is as it was, or a WriteString fails and the
\* file holds the lines written before it
FailedWrites(old, new) ==
    { [file |-> old, err |-> ErrParse], [file |-> old, err |-> ErrCreate] }
    \cup { [file |-> f, err |-> ErrWrite] : f \in StrictLinePrefixes(new) }

\* a config file with one entry
UIErrFiles ==
    { WriteLines(<< kHost \o sSp \o <<"b">>, <<" ", " ">> \o kHostName \o sSp \o <<"g">> >>) }

\* the program starts on such a file; one save or confirmed delete succeeds
InitUIErr ==
    /\ file \in UIErrFiles
    /\ before = file
    /\ history = <<>>
    /\ parsed = NothingParsed
    /\ budget = 1
    /\ procs = NoCalls
    /\ tracker \in { [NoTracker EXCEPT !.file = f] : f \in UITrackerFiles \ {NoFile} }
    /\ ui = NoUI

\* what the user may have typed into the editor form: a valid form and one
\* without alias
ErrForms ==
    { NewEntry(<<"c">>, <<"h">>, <<"u">>, <<>>, <<>>, <<>>),
      NewEntry(<<>>, <<"h">>, <<>>, <<>>, <<>>, <<>>) }

\* enter in list mode, connectToHost with a Save that fails
ListEnterFails ==
    /\ ui.mode = "list"
    /\ HasSelected(ui)
    /\ ui.failures < MaxUIFailures
    /\ LET counts == IncrementCount(tracker.counts, GetSelected(ui).Host)
       IN  \E r \in FailedSaves(counts, tracker.file) :
              /\ tracker' = [tracker EXCEPT !.counts = counts, !.file = r.file,
                                            !.step = "save failed"]
              /\ ui' = [ui EXCEPT !.err = r.err, !.failures = @ + 1,
                                  !.event = "connect failed", !.from = ui.mode]
    /\ UNCHANGED <<file, before, history, parsed, budget, procs>>

\* y or Y in delete mode, confirmDelete with a DeleteEntry that fails
DeleteYesFails ==
    /\ ui.mode = "delete"
    /\ HasSelected(ui)
    /\ ui.failures < MaxUIFailures
    /\ \E r \in FailedWrites(file, DeleteEntryFile(file, GetSelected(ui).Host)) :
          /\ file' = r.file
          /\ ui' = [ui EXCEPT !.err = r.err, !.mode = "list", !.failures = @ + 1,
                              !.event = "delete failed", !.from = ui.mode]
    /\ UNCHANGED <<before, history, parsed, budget, procs, tracker>>

\* y or Y in delete mode, confirmDelete with a reload that fails
DeleteYesReloadFails ==
    /\ ui.mode = "delete"
    /\ HasSelected(ui)
    /\ Len(history) < budget
    /\ ui.failures < MaxUIFailures
    /\ file' = DeleteEntryFile(file, GetSelected(ui).Host)
    /\ before' = file
    /\ history' = Append(history,
          [NoOp EXCEPT !.op = "delete", !.host = GetSelected(ui).Host])
    /\ ui' = [ui EXCEPT !.err = ErrOpen, !.mode = "list", !.failures = @ + 1,
                        !.event = "reload failed", !.from = ui.mode]
    /\ UNCHANGED <<parsed, budget, procs, tracker>>

\* enter in edit or add mode, saveEntry with an AddEntry or UpdateEntry that
\* fails: the error goes to the editor
EditorEnterFails(form) ==
    /\ ui.mode \in {"edit", "add"}
    /\ ui.mode = "add" \/ ui.editing # NoEntry
    /\ Validate(form) = ""
    /\ ui.failures < MaxUIFailures
    /\ LET newFile == IF ui.mode = "add" THEN AddEntryFile(file, form)
                      ELSE UpdateEntryFile(file, ui.editing.Host, form)
       IN  \E r \in FailedWrites(file, newFile) :
              /\ file' = r.file
              /\ ui' = [ui EXCEPT !.errorMsg = r.err, !.form = form, !.failures = @ + 1,
                                  !.event = "save failed", !.from = ui.mode]
    /\ UNCHANGED <<before, history, parsed, budget, procs, tracker>>

\* enter in edit or add mode, saveEntry with a reload that fails
EditorEnterReloadFails(form) ==
    /\ ui.mode \in {"edit", "add"}
    /\ Validate(form) = ""
    /\ Len(history) < budget
    /\ ui.failures < MaxUIFailures
    /\ file' = IF ui.mode = "add" THEN AddEntryFile(file, form)
               ELSE IF ui.editing # NoEntry
                    THEN UpdateEntryFile(file, ui.editing.Host, form)
                    ELSE file
    /\ before' = file
    /\ history' = Append(history,
          [NoOp EXCEPT !.op = IF ui.mode = "add" THEN "add" ELSE "update",
                       !.host = ui.editing.Host, !.entry = form])
    /\ ui' = [ui EXCEPT !.err = ErrOpen, !.form = form, !.failures = @ + 1,
                        !.event = "reload failed", !.from = ui.mode]
    /\ UNCHANGED <<parsed, budget, procs, tracker>>

\* y or Y in clear-visits mode, confirmClearVisits with a ClearAll that
\* fails: the counts are dropped or not, the tracker file is as it was or
\* empty
ClearYesFails ==
    /\ ui.mode = "clear"
    /\ ui.failures < MaxUIFailures
    /\ \E counts \in {tracker.counts, ClearAllCounts(tracker.counts)},
          f \in {tracker.file, <<>>} :
          tracker' = [tracker EXCEPT !.counts = counts, !.file = f,
                                     !.step = "clear failed"]
    /\ ui' = [ui EXCEPT !.err = ErrCreateTracker, !.mode = "list", !.failures = @ + 1,
                        !.event = "clear failed", !.from = ui.mode]
    /\ UNCHANGED <<file, before, history, parsed, budget, procs>>

\* the key handlers, each with the outcomes of the calls it makes
NextUIErr ==
    \/ StartUp
    \/ KeyDown
    \/ KeyUp
    \/ KeySlash
    \/ \E term \in SearchTerms : SearchType(term)
    \/ SearchEnter
    \/ SearchEsc
    \/ KeyA
    \/ KeyE
    \/ KeyD
    \/ EditorEsc
    \/ \E form \in ErrForms : EditorEnter(form)
    \/ \E form \in ErrForms : EditorEnterFails(form)
    \/ \E form \in ErrForms : EditorEnterReloadFails(form)
    \/ DeleteYes
    \/ DeleteYesFails
    \/ DeleteYesReloadFails
    \/ \E key \in CancelKeys : DeleteNo(key)
    \/ KeyX
    \/ ClearYes
    \/ ClearYesFails
    \/ \E key \in CancelKeys : ClearNo(key)
    \/ \E key \in MoveKeys : ConfirmMove(key)
    \/ ListEnter
    \/ ListEnterFails

SpecUIErr == InitUIErr /\ [][NextUIErr]_vars

(***************************************************************************)
(* Vocabulary of the properties                                            *)
(***************************************************************************)

\* the six data fields of an entry (raw lines, comment block and line
\* numbers left out)
Data(e) ==
    [Host |-> e.Host, HostName |-> e.HostName, User |-> e.User, Port |-> e.Port,
     IdentityFile |-> e.IdentityFile, Description |-> e.Description]

DataOf(entries) == [i \in 1..Len(entries) |-> Data(entries[i])]

\* the fields that come from directive lines
Directives(e) ==
    [Host |-> e.Host, HostName |-> e.HostName, User |-> e.User, Port |-> e.Port,
     IdentityFile |-> e.IdentityFile]

\* a line that is the directive `name` (lower case) with a value
IsDirectiveLine(line, name) ==
    LET parts == Fields(TrimSpace(line))
    IN  Len(parts) >= 2 /\ ToLower(parts[1]) = name

ValueOf(line) == Join(Tail(Fields(TrimSpace(line))), sSp)

IsHostLine(line) == IsDirectiveLine(line, kHost)

HostLineCount(lines) == Cardinality({i \in 1..Len(lines) : IsHostLine(lines[i])})

\* the last line of the block that starts at the Host line k: the line
\* before the next Host line, or the last line of the file
BlockEnd(lines, k) ==
    IF \E j \in (k + 1)..Len(lines) : IsHostLine(lines[j])
    THEN (CHOOSE j \in (k + 1)..Len(lines) :
            /\ IsHostLine(lines[j])
            /\ \A m \in (k + 1)..(j - 1) : ~IsHostLine(lines[m])) - 1
    ELSE Len(lines)

\* the value the directive lines of lines[from..to] give to `name`
\* (the last such line wins), "" when there is none
BlockValue(lines, from, to, name) ==
    IF \E j \in from..to : IsDirectiveLine(lines[j], name)
    THEN ValueOf(lines[CHOOSE j \in from..to :
                         /\ IsDirectiveLine(lines[j], name)
                         /\ \A m \in (j + 1)..to : ~IsDirectiveLine(lines[m], name)])
    ELSE <<>>

\* the entry described by the block that starts at the Host line k
BlockEntry(lines, k) ==
    LET to == BlockEnd(lines, k)
    IN  [Host |-> ValueOf(lines[k]),
         HostName |-> BlockValue(lines, k + 1, to, kHostName),
         User |-> BlockValue(lines, k + 1, to, kUser),
         Port |-> BlockValue(lines, k + 1, to, kPort),
         IdentityFile |-> BlockValue(lines, k + 1, to, kIdentityFile)]

ValidBlock(b) == b.Host = sStar \/ b.HostName # <<>>

\* the valid blocks of the file from line k on, in file order
RECURSIVE ValidBlocksFrom(_, _)
ValidBlocksFrom(lines, k) ==
    IF k > Len(lines) THEN <<>>
    ELSE IF IsHostLine(lines[k]) /\ ValidBlock(BlockEntry(lines, k))
         THEN <<BlockEntry(lines, k)>> \o ValidBlocksFrom(lines, k + 1)
         ELSE ValidBlocksFrom(lines, k + 1)

\* every Host block of the file is valid
AllBlocksValid(f) ==
    LET lines == ScanLines(f)
    IN  \A k \in 1..Len(lines) : IsHostLine(lines[k]) => ValidBlock(BlockEntry(lines, k))

EntriesOf(f) == ParseConfig(f).entries

DescLineCount(lines) ==
    Cardinality({i \in 1..Len(lines) : Contains(lines[i], sDescPrefix)})

(***************************************************************************)
(* C1  Round-trip identity: for a config file in which every Host block is *)
(* valid, ParseConfig followed by WriteConfig of what it returned leaves   *)
(* the file byte-for-byte equal to the original (stated for files that     *)
(* hold at least one entry).                                               *)
(***************************************************************************)
C1_RoundTripIdentity ==
    (Last.op = "rewrite" /\ AllBlocksValid(before) /\ EntriesOf(before) # <<>>)
        => file = before

(***************************************************************************)
(* C2  Description update on rewrite: when a parsed entry carries a        *)
(* "# Description:" line in its raw lines and its description is set to a  *)
(* new non-empty text, the written file has exactly one "# Description:"   *)
(* line for that entry, that line carries the new text and not the old     *)
(* one, and re-parsing yields the new description.                         *)
(***************************************************************************)
C2_DescriptionUpdated ==
    LET i == Last.index
        old == EntriesOf(before)[i]
        new == EntriesOf(file)
    IN  (/\ Last.op = "edit"
         /\ Last.field = "Description"
         /\ Last.value # <<>>
         /\ HasDescLine(old.RawLines)
         /\ old.Description # Last.value)
        => /\ Len(new) >= i
           /\ new[i].Description = Last.value
           /\ DescLineCount(new[i].RawLines) = 1
           /\ \A j \in 1..Len(new[i].RawLines) :
                 Contains(new[i].RawLines[j], sDescPrefix)
                     => new[i].RawLines[j] = sDescPrefix \o sSp \o Last.value

(***************************************************************************)
(* C3  Value update preserves shape: for a parsed entry whose directives   *)
(* are tab-indented, changing only the port value and writing yields a     *)
(* file in which the port line keeps its leading whitespace and directive  *)
(* spelling with only the value replaced, and every other line of the file *)
(* is identical to the original.                                           *)
(***************************************************************************)
TabIndented(entry) ==
    /\ \E j \in 1..Len(entry.RawLines) : IsDirectiveLine(entry.RawLines[j], kPort)
    /\ \A j \in 1..Len(entry.RawLines) :
          LET l == entry.RawLines[j]
          IN  (TrimSpace(l) # <<>> /\ ~HasPrefix(TrimSpace(l), sHash) /\ ~IsHostLine(l))
                  => LeadingWhitespace(l) = sTab

\* C3: changing only Port of a tab-indented entry rewrites the file with
\* only the Port line's value replaced; every other line is unchanged.
C3_PortUpdateKeepsShape ==
    LET i == Last.index
        old == EntriesOf(before)[i]
        lines == ScanLines(before)
    IN  (/\ Last.op = "edit"
         /\ Last.field = "Port"
         /\ Last.value # <<>>
         /\ TabIndented(old))
        => ScanLines(file) =
              [j \in 1..Len(lines) |->
                  IF /\ j >= old.StartLine
                     /\ j <= old.EndLine
                     /\ IsDirectiveLine(lines[j], kPort)
                  THEN LeadingWhitespace(lines[j]) \o Fields(TrimSpace(lines[j]))[1]
                           \o sSp \o Last.value
                  ELSE lines[j]]

C5_OneEntryPerValidBlock ==
    LET es == parsed.entries
    IN  Last.op = "parse" =>
        [i \in 1..Len(es) |-> Directives(es[i])] = ValidBlocksFrom(ScanLines(file), 1)

(***************************************************************************)
(* C6  End-to-end add then delete: from a path with no file, AddEntry of a *)
(* valid entry that has alias, address and user, followed by ParseConfig,  *)
(* returns exactly that one entry; a following DeleteEntry with its alias, *)
(* followed by ParseConfig, returns no entry.                              *)
(***************************************************************************)
AliasAddressUser(e) ==
    /\ e.Host # <<>> /\ e.HostName # <<>> /\ e.User # <<>>
    /\ e.Port = <<>> /\ e.IdentityFile = <<>> /\ e.Description = <<>>

AddedThenDeleted ==
    /\ Len(history) = 2
    /\ history[1].op = "add"
    /\ AliasAddressUser(history[1].entry)
    /\ history[2].op = "delete"
    /\ history[2].host = history[1].entry.Host

\* C6: from no file, AddEntry(e) then DeleteEntry(e.Host) leaves a file that
\* parses to no entries; after the add it parsed to exactly e.
C6_AddThenDelete ==
    /\ (Len(history) = 1 /\ history[1].op = "add" /\ AliasAddressUser(history[1].entry))
           => DataOf(EntriesOf(file)) = <<Data(history[1].entry)>>
    /\ AddedThenDeleted => EntriesOf(file) = <<>>

C6_Witness == AddedThenDeleted /\ before # <<>> /\ file = <<>>

(***************************************************************************)
(* C7  AddEntry preserves what is there: after AddEntry(path, e) with a    *)
(* valid e on a file whose parse returns E, ParseConfig returns the        *)
(* entries of E with unchanged fields, in the same order, followed by e.   *)
(***************************************************************************)
C7_AddAppends ==
    (Last.op = "add" /\ IsValid(Last.entry))
        => DataOf(EntriesOf(file)) = DataOf(EntriesOf(before)) \o <<Data(Last.entry)>>

(***************************************************************************)
(* C8  UpdateEntry replaces the first entry whose alias matches, in place: *)
(* afterwards ParseConfig returns the same number of entries, the entry at *)
(* that position has newEntry's alias, HostName, User and Port, and every  *)
(* other entry has unchanged fields and position.                          *)
(***************************************************************************)
C8_UpdateInPlace ==
    LET old == EntriesOf(before)
        new == EntriesOf(file)
        k == FirstIndex(old, Last.host)
    IN  (Last.op = "update" /\ k # 0)
        => /\ Len(new) = Len(old)
           /\ new[k].Host = Last.entry.Host
           /\ new[k].HostName = Last.entry.HostName
           /\ new[k].User = Last.entry.User
           /\ new[k].Port = Last.entry.Port
           /\ \A j \in 1..Len(old) : j # k => Data(new[j]) = Data(old[j])

(***************************************************************************)
(* C9  UpdateEntry with an alias that matches no entry is a silent no-op:  *)
(* the file content after the call is identical to the content before it   *)
(* (stated for files that hold at least one entry).                        *)
(***************************************************************************)
C9_UpdateUnknownAliasNoOp ==
    (/\ Last.op = "update"
     /\ EntriesOf(before) # <<>>
     /\ FirstIndex(EntriesOf(before), Last.host) = 0)
        => file = before

(***************************************************************************)
(* C10  After DeleteEntry(path, alias), ParseConfig returns no entry with  *)
(* that alias and returns every entry with a different alias with          *)
(* unchanged fields, in the original relative order.                       *)
(***************************************************************************)
OtherAlias(e) == e.Host # Last.host

\* C10: after DeleteEntry no entry has the alias and every other entry is
\* returned unchanged, in order.
C10_DeleteKeepsOthers ==
    LET old == EntriesOf(before)
        new == EntriesOf(file)
    IN  Last.op = "delete"
        => /\ \A i \in 1..Len(new) : new[i].Host # Last.host
           /\ DataOf(new) = DataOf(SelectSeq(old, OtherAlias))

\* number of entries whose alias is h
AliasCount(entries, h) == Cardinality({i \in 1..Len(entries) : entries[i].Host = h})

\* the entry old[j] is among the entries returned afterwards
StillReturned(new, e) == \E i \in 1..Len(new) : Data(new[i]) = Data(e)

(***************************************************************************)
(* C11  Duplicate aliases: when the file holds several entries with the    *)
(* same alias, UpdateEntry and DeleteEntry each act on the first such      *)
(* entry only, and the later entries with that alias are still returned by *)
(* ParseConfig afterwards.                                                 *)
(***************************************************************************)
C11_FirstMatchOnly ==
    LET old == EntriesOf(before)
        new == EntriesOf(file)
        k == FirstIndex(old, Last.host)
    IN  (Last.op \in {"update", "delete"} /\ AliasCount(old, Last.host) >= 2)
        => \A j \in (k + 1)..Len(old) :
              old[j].Host = Last.host => StillReturned(new, old[j])

\* C11 as amended: UpdateEntry replaces the first entry with the alias only
\* and every later entry with that alias is returned unchanged at its
\* position; DeleteEntry removes every entry with the alias.
C11_UpdateFirstDeleteAll ==
    LET old == EntriesOf(before)
        new == EntriesOf(file)
        k == FirstIndex(old, Last.host)
        n == AliasCount(old, Last.host)
    IN  /\ (Last.op = "update" /\ n >= 2)
           => /\ Len(new) = Len(old)
              /\ \A j \in (k + 1)..Len(old) :
                    old[j].Host = Last.host => Data(new[j]) = Data(old[j])
        /\ (Last.op = "delete" /\ n >= 2)
           => /\ Len(new) = Len(old) - n
              /\ \A j \in 1..Len(new) : new[j].Host # Last.host

C11_Witness ==
    /\ Last.op = "update"
    /\ AliasCount(EntriesOf(before), Last.host) >= 2
    /\ Last.entry.Host # Last.host
    /\ AliasCount(EntriesOf(file), Last.host) = 1

(***************************************************************************)
(* C12  ParseConfig on a path where no file exists returns an empty entry  *)
(* list, an empty standalone-comment list and no error; any other failure  *)
(* to open or read the file is returned as an error with no entries.       *)
(***************************************************************************)
C12_MissingFileOrError ==
    Last.op = "parse"
    => /\ before = NoFile
          => (parsed.entries = <<>> /\ parsed.standaloneComments = <<>>
              /\ parsed.err = NoError)
       /\ (before = CannotOpen \/ ScanErr(before))
          => (parsed.err # NoError /\ parsed.entries = <<>>)
       /\ (before # CannotOpen /\ ~ScanErr(before)) => parsed.err = NoError

\* a read failure on a file that holds a Host block
C12_Witness ==
    /\ Last.op = "parse"
    /\ ScanErr(before)
    /\ HostLineCount(ScanLines(before)) > 0
    /\ parsed.err = ErrRead

\* every process has returned from its call without an interruption
AllReturned == \A p \in Procs : procs[p].pc = "returned"

\* every process parsed the file before any process opened it for writing
AllParsedFirst == \A p \in Procs : procs[p].parsedFirst

\* no process opened the file for writing while another was writing it
NoOverlap == \A p \in Procs : procs[p].alone

(***************************************************************************)
(* C13  Lost update under concurrency: when two mutating operations on the *)
(* same path interleave so that both parse the file before either writes   *)
(* it, the final file reflects only the operation whose write completed    *)
(* last, the other operation's change is absent, and neither operation     *)
(* returns an error.                                                       *)
(***************************************************************************)
C13_LastWriterWins ==
    (AllReturned /\ AllParsedFirst)
        => /\ file = ResultOf(Last, before)
           /\ \A p \in Procs : procs[p].err = NoError

\* C13 as amended: the same, for interleavings in which one operation's
\* WriteConfig returns before the other's opens the file; when the two
\* writes overlap the file can end as a mixture of both contents.
C13_LastWriterWinsNoOverlap ==
    (AllReturned /\ AllParsedFirst /\ NoOverlap)
        => /\ file = ResultOf(Last, before)
           /\ \A p \in Procs : procs[p].err = NoError

\* both parsed first, the writes did not overlap, and the change of the
\* operation that returned first is lost
C13_Witness ==
    /\ AllReturned /\ AllParsedFirst /\ NoOverlap
    /\ Len(history) = 2
    /\ ResultOf(history[1], before) # before
    /\ file = ResultOf(history[2], before)
    /\ file # ResultOf(history[2], ResultOf(history[1], before))

\* the process has opened the file for writing and has not written the last
\* line: it is still writing, was stopped, or returned a write error
MidWrite(p) ==
    /\ procs[p].pc \in {"writing", "killed", "returned"}
    /\ procs[p].todo # <<>>

\* the content the call of process p is writing
NewContent(p) == ResultOf(procs[p].op, procs[p].read)

IsStrictPrefix(a, b) == Len(a) < Len(b) /\ SubSeq(b, 1, Len(a)) = a

(***************************************************************************)
(* C14  Non-atomic write: WriteConfig truncates the target file in place   *)
(* before emitting any content, so an interruption or write failure after  *)
(* the truncation and before the last line is written leaves the file      *)
(* holding neither the old content nor the complete new content (a         *)
(* possibly empty strict prefix of the new content), and a concurrent      *)
(* ParseConfig can observe that state (stated for a file that was not      *)
(* empty before).                                                          *)
(***************************************************************************)
C14_NeitherOldNorNew ==
    (MidWrite(Writer) /\ procs[Writer].read # <<>>)
        => /\ file # procs[Writer].read
           /\ file # NewContent(Writer)
           /\ IsStrictPrefix(file, NewContent(Writer))

\* C14 as amended: the file holds a possibly empty strict prefix of the new
\* content, never the complete new content; it differs from the old content
\* unless the old content is itself such a prefix.
C14_StrictPrefixOfNew ==
    MidWrite(Writer)
        => /\ IsStrictPrefix(file, NewContent(Writer))
           /\ file = procs[Writer].read
                 => IsStrictPrefix(procs[Writer].read, NewContent(Writer))

\* a ParseConfig call of another process has read the partial file of a
\* stopped writer and returned neither the old nor the new entries
C14_Witness ==
    /\ MidWrite(Writer)
    /\ procs[Writer].pc = "killed"
    /\ Last.op = "parse"
    /\ before = file
    /\ file # <<>>
    /\ parsed.err = NoError
    /\ DataOf(parsed.entries) # DataOf(EntriesOf(procs[Writer].read))
    /\ DataOf(parsed.entries) # DataOf(EntriesOf(NewContent(Writer)))

(***************************************************************************)
(* C15  IdentityFile is persisted for new entries: WriteConfig of an entry *)
(* without rawLines and with a non-empty IdentityFile emits an             *)
(* `IdentityFile <value>` line in that entry's block, so that ParseConfig  *)
(* of the written file returns the same IdentityFile.                      *)
(***************************************************************************)
C15_IdentityFilePersisted ==
    LET new == EntriesOf(file)
        lines == ScanLines(file)
    IN  (Last.op = "add" /\ Last.entry.RawLines = <<>>
                         /\ Last.entry.IdentityFile # <<>>)
        => /\ \E i \in 1..Len(lines) :
                 /\ IsDirectiveLine(lines[i], kIdentityFile)
                 /\ ValueOf(lines[i]) = Last.entry.IdentityFile
           /\ new # <<>>
           /\ new[Len(new)].IdentityFile = Last.entry.IdentityFile

\* the value of the field of an entry that an edit names
FieldOf(entry, field) ==
    CASE field = "HostName" -> entry.HostName
      [] field = "User" -> entry.User
      [] field = "Port" -> entry.Port
      [] field = "IdentityFile" -> entry.IdentityFile
      [] field = "Description" -> entry.Description

\* the directive, in lower case, that carries the field
DirectiveOf(field) ==
    CASE field = "HostName" -> kHostName
      [] field = "User" -> kUser
      [] field = "Port" -> kPort
      [] field = "IdentityFile" -> kIdentityFile

\* the raw lines of the entry hold a line of the field's directive
HasLineOf(entry, field) ==
    \E j \in 1..Len(entry.RawLines) : IsDirectiveLine(entry.RawLines[j], DirectiveOf(field))

\* a raw line with its value replaced: leading whitespace, directive as
\* spelled, one space, the value
WithValue(line, value) ==
    LeadingWhitespace(line) \o Fields(TrimSpace(line))[1] \o sSp \o value

(***************************************************************************)
(* C16  Edited fields survive a rewrite of a passthrough entry: for an     *)
(* entry obtained from ParseConfig whose HostName, User, Port or           *)
(* IdentityFile is changed to a new non-empty value, WriteConfig rewrites  *)
(* the corresponding recognized directive line with the original           *)
(* indentation and directive spelling followed by the new value, so that   *)
(* re-parsing returns exactly the new value for every changed field.       *)
(***************************************************************************)
C16_EditedFieldSurvives ==
    LET i == Last.index
        old == EntriesOf(before)[i]
        new == EntriesOf(file)
    IN  (/\ Last.op = "edit"
         /\ Last.field \in {"HostName", "User", "Port", "IdentityFile"}
         /\ Last.value # <<>>
         /\ FieldOf(old, Last.field) # Last.value
         /\ HasLineOf(old, Last.field))
        => /\ Len(new) >= i
           /\ FieldOf(new[i], Last.field) = Last.value
           /\ \A j \in 1..Len(old.RawLines) :
                 IsDirectiveLine(old.RawLines[j], DirectiveOf(Last.field))
                     => \E m \in 1..Len(new[i].RawLines) :
                           new[i].RawLines[m] = WithValue(old.RawLines[j], Last.value)

\* the lines of the file before its first Host line
Leading(lines) ==
    IF \E k \in 1..Len(lines) : IsHostLine(lines[k])
    THEN SubSeq(lines, 1, (CHOOSE k \in 1..Len(lines) :
                              /\ IsHostLine(lines[k])
                              /\ \A m \in 1..(k - 1) : ~IsHostLine(lines[m])) - 1)
    ELSE <<>>

IsDescLine(l) == HasPrefix(TrimSpace(l), sDescPrefix)

\* a comment line that is not a Description line and does not start with ##
IsPlainComment(l) ==
    /\ HasPrefix(TrimSpace(l), sHash)
    /\ ~HasPrefix(TrimSpace(l), sHashHash)
    /\ ~IsDescLine(l)

DescText(l) == TrimSpace(TrimPrefix(TrimSpace(l), sDescPrefix))

CommentText(l) == TrimSpace(TrimPrefix(TrimSpace(l), sHash))

\* the first element of the sequence that satisfies P
FirstThat(s, P(_)) ==
    s[CHOOSE i \in 1..Len(s) : P(s[i]) /\ \A j \in 1..(i - 1) : ~P(s[j])]

HasText(l) == IsPlainComment(l) /\ CommentText(l) # <<>>

(***************************************************************************)
(* C17  Description precedence: when the comment lines leading a Host line *)
(* contain both plain comments and a line `# Description: X`, the parsed   *)
(* description is X trimmed, wherever the `# Description:` line stands     *)
(* among them; only when no `# Description:` line is present is the        *)
(* description the text of the first comment line that does not start with *)
(* `##`.                                                                   *)
(***************************************************************************)
C17_DescriptionPrecedence ==
    LET c == Leading(ScanLines(before))
        e == parsed.entries[1]
    IN  (Last.op = "parse" /\ parsed.entries # <<>>)
        => IF \E i \in 1..Len(c) : IsDescLine(c[i])
           THEN \E i \in 1..Len(c) : IsDescLine(c[i]) /\ e.Description = DescText(c[i])
           ELSE (\E i \in 1..Len(c) : IsPlainComment(c[i]))
                    => e.Description = CommentText(FirstThat(c, IsPlainComment))

\* C17 as amended: the description is X trimmed of the first
\* `# Description: X` line, wherever it stands; with no such line it is the
\* text of the first comment line that does not start with `##` and has a
\* non-empty text, and empty when there is no such comment line.
C17_FirstDescriptionElseFirstText ==
    LET c == Leading(ScanLines(before))
        e == parsed.entries[1]
    IN  (Last.op = "parse" /\ parsed.entries # <<>>)
        => e.Description =
              IF \E i \in 1..Len(c) : IsDescLine(c[i])
              THEN DescText(FirstThat(c, IsDescLine))
              ELSE IF \E i \in 1..Len(c) : HasText(c[i])
                   THEN CommentText(FirstThat(c, HasText))
                   ELSE <<>>

\* a plain comment stands before the Description line and the description
\* is the Description line's
C17_Witness ==
    LET c == Leading(ScanLines(before))
    IN  /\ Last.op = "parse"
        /\ Len(c) >= 2
        /\ HasText(c[1])
        /\ IsDescLine(c[Len(c)])
        /\ parsed.entries # <<>>
        /\ parsed.entries[1].Description = DescText(c[Len(c)])
        /\ parsed.entries[1].Description # CommentText(c[1])

\* the number of positions of the sequence that hold x
Occurrences(s, x) == Cardinality({i \in 1..Len(s) : s[i] = x})

\* position i stands before position j in the order of SortByVisits
InVisitOrder(counts, a, b) ==
    \/ GetCount(counts, a) > GetCount(counts, b)
    \/ (GetCount(counts, a) = GetCount(counts, b) /\ (a = b \/ StrLess(a, b)))

(***************************************************************************)
(* C18  VisitTracker.SortByVisits returns a permutation of the given host  *)
(* names ordered by descending visit count, with hosts of equal count      *)
(* ordered alphabetically (in the order of Go's string comparison); hosts  *)
(* never incremented count as 0.                                           *)
(***************************************************************************)
C18_SortByVisits ==
    tracker.step = "sort"
    => /\ Len(tracker.sorted) = Len(tracker.hosts)
       /\ \A h \in TrackHosts :
             Occurrences(tracker.sorted, h) = Occurrences(tracker.hosts, h)
       /\ \A i, j \in 1..Len(tracker.sorted) :
             i < j => InVisitOrder(tracker.counts, tracker.sorted[i], tracker.sorted[j])
       /\ \A h \in TrackHosts :
             h \notin DOMAIN tracker.counts => GetCount(tracker.counts, h) = 0

\* a list that was not in order, with a tie and a host never incremented
C18_Witness ==
    /\ tracker.step = "sort"
    /\ Len(tracker.hosts) = 3
    /\ tracker.sorted # tracker.hosts
    /\ \E i, j \in 1..3 :
          /\ i # j
          /\ tracker.hosts[i] # tracker.hosts[j]
          /\ GetCount(tracker.counts, tracker.hosts[i]) = GetCount(tracker.counts, tracker.hosts[j])
    /\ \E i \in 1..3 : tracker.hosts[i] \notin DOMAIN tracker.counts
    /\ \E i \in 1..3 : GetCount(tracker.counts, tracker.hosts[i]) > 0

(***************************************************************************)
(* C19  Visit counts round-trip through the tracker file: for every        *)
(* tracker state reached by any sequence of Increment calls, Save followed *)
(* by Load into a fresh tracker on the same path gives GetCount(h) equal   *)
(* to the saved count for every host h.                                    *)
(***************************************************************************)
C19_SaveLoadRoundTrip ==
    (tracker.step = "load" /\ tracker.file # NoFile)
        => \A h \in TrackHosts :
              GetCount(tracker.loaded, h) = GetCount(tracker.saved, h)

\* the list the UI shows was just built by start-up, a successful save or a
\* confirmed delete, with no search filter active
ListJustBuilt ==
    /\ ui.event \in {"start", "save", "delete"}
    /\ ui.err = NoError
    /\ ui.searchTerm = <<>>

(***************************************************************************)
(* C20  The host list shown by the UI after start-up, after a successful   *)
(* save and after a confirmed delete consists of exactly the parsed        *)
(* entries whose alias is not *, each exactly once, ordered by descending  *)
(* visit count with ties broken alphabetically by alias (stated for a list *)
(* with no search filter active).                                          *)
(***************************************************************************)
C20_ShownList ==
    ListJustBuilt =>
        LET display == DisplayEntries(EntriesOf(file))
        IN  /\ Len(ui.filtered) = Len(display)
            /\ \A i \in 1..Len(display) : Occurrences(ui.filtered, display[i]) = 1
            /\ \A i, j \in 1..Len(ui.filtered) :
                  i < j => InVisitOrder(tracker.counts, ui.filtered[i].Host,
                                        ui.filtered[j].Host)

\* the modes a key can cancel
CancelModes == {"search", "edit", "add", "delete", "clear"}

\* the step handles a cancelling key: Esc in any of the modes, n or N in
\* the two confirmation modes
CancelStep ==
    /\ ui.mode \in CancelModes
    /\ ui'.from = ui.mode
    /\ \/ ui'.event = "esc"
       \/ ui'.event \in {"n", "N"} /\ ui.mode \in {"delete", "clear"}

(***************************************************************************)
(* C21  Cancel leaves the config untouched: from search, edit, add,        *)
(* delete-confirmation and clear-visits-confirmation mode, Esc (or n/N in  *)
(* the two confirmation modes) returns the UI to list mode without a call  *)
(* of AddEntry, UpdateEntry, DeleteEntry or ClearAll (the config file, the *)
(* record of calls and the tracker are unchanged); Esc in search mode also *)
(* clears the search term so that the full list is shown again.            *)
(***************************************************************************)
C21_CancelLeavesConfig ==
    [][CancelStep =>
          /\ ui'.mode = "list"
          /\ file' = file
          /\ history' = history
          /\ tracker' = tracker
          /\ ui'.entries = ui.entries
          /\ (ui.mode = "search" =>
                 ui'.searchTerm = <<>> /\ ui'.filtered = ui'.entries)]_vars

\* Esc has just ended a search in a list with an entry that the term g
\* hides, while the tracker holds counts
C21_Witness ==
    /\ ui.mode = "list"
    /\ ui.from = "search" /\ ui.event = "esc"
    /\ Len(ui.filtered) >= 2
    /\ \E i \in 1..Len(ui.filtered) : ~Matches(ui.filtered[i], <<"g">>)
    /\ tracker.counts # NoCounts

(***************************************************************************)
(* C22  In search mode, pressing Enter exits search mode and leaves the    *)
(* first entry of the filtered list selected, whatever entry was selected  *)
(* before the search began and whatever was typed (stated for a search     *)
(* that ends with a term in the input).                                    *)
(***************************************************************************)
C22_EnterSelectsFirstMatch ==
    (ui.from = "search" /\ ui.event = "enter" /\ ui.searchTerm # <<>>)
        => /\ ui.mode = "list"
           /\ ui.selected = 0

\* the step handles Enter in edit or add mode
EditorEnterStep ==
    /\ ui.mode \in {"edit", "add"}
    /\ ui'.from = ui.mode
    /\ ui'.event \in {"enter", "save"}

\* the form that Enter read in that step
EnteredForm == IF ui'.event = "save" THEN history'[Len(history')].entry ELSE ui'.form

\* the form fails the validation the claim describes
FormRejected(form) ==
    form.Host = <<>> \/ (form.HostName = <<>> /\ form.Host # sStar)

(***************************************************************************)
(* C23  In edit and add mode, Enter saves only a validated form: when the  *)
(* Host field is empty, or the HostName field is empty and Host is not *,  *)
(* the UI stays in the same mode with an error message and the config file *)
(* is not written; otherwise AddEntry (add mode) or UpdateEntry keyed by   *)
(* the edited entry's previous alias (edit mode) is called once, and on    *)
(* success the UI returns to list mode with the saved alias selected       *)
(* (stated for a saved alias other than *, which the list never shows).    *)
(***************************************************************************)
C23_EnterSavesValidated ==
    [][(EditorEnterStep /\ EnteredForm.Host # sStar) =>
          IF FormRejected(EnteredForm)
          THEN /\ ui'.mode = ui.mode
               /\ ui'.errorMsg # ""
               /\ file' = file
               /\ history' = history
          ELSE /\ history' = Append(history,
                     [NoOp EXCEPT !.op = IF ui.mode = "add" THEN "add" ELSE "update",
                                  !.host = ui.editing.Host, !.entry = EnteredForm])
               /\ file' = IF ui.mode = "add" THEN AddEntryFile(file, EnteredForm)
                          ELSE UpdateEntryFile(file, ui.editing.Host, EnteredForm)
               /\ ui'.mode = "list"
               /\ HasSelected(ui')
               /\ GetSelected(ui').Host = EnteredForm.Host]_vars

\* the last call wrote the file from parsed entries
Wrote == Last.op \in {"rewrite", "edit"}

\* the entries handed to WriteConfig by the last rewrite or edit
WrittenEntries ==
    LET entries == EntriesOf(before)
    IN  IF Last.op = "edit"
        THEN [entries EXCEPT ![Last.index] = SetField(@, Last.field, Last.value)]
        ELSE entries

\* the field of the entry that the directive `name` carries
FieldByDirective(entry, name) ==
    CASE name = kHost -> entry.Host
      [] name = kHostName -> entry.HostName
      [] name = kUser -> entry.User
      [] name = kPort -> entry.Port
      [] name = kIdentityFile -> entry.IdentityFile

RecognizedDirectives == {kHost, kHostName, kUser, kPort, kIdentityFile}

\* a raw line of a recognized directive whose value is the entry's value
UnchangedDirectiveLine(entry, line) ==
    \E name \in RecognizedDirectives :
        /\ IsDirectiveLine(line, name)
        /\ ValueOf(line) = FieldByDirective(entry, name)

(***************************************************************************)
(* C24  Unchanged recognized directive lines are replayed byte-for-byte:   *)
(* when WriteConfig replays the rawLines of a passthrough entry, every     *)
(* line whose directive is host, hostname, user, port or identityfile and  *)
(* whose parsed value equals the entry's current field value is emitted    *)
(* identical to the original line, preserving its leading whitespace, the  *)
(* letter-casing of the directive name and the spacing inside the line.    *)
(***************************************************************************)
C24_UnchangedLinesVerbatim ==
    Wrote =>
        \A i \in 1..Len(WrittenEntries) :
            LET e == WrittenEntries[i]
            IN  \A j \in 1..Len(e.RawLines) :
                    UnchangedDirectiveLine(e, e.RawLines[j])
                        => ReplayLine(e, e.RawLines[j]) = <<e.RawLines[j]>>

IsCommentLine(line) == HasPrefix(TrimSpace(line), sHash)

\* line k is a comment inside the valid block of the Host line h, and a
\* directive line of the block follows it
CommentInBlock(lines, h, k) ==
    /\ IsHostLine(lines[h])
    /\ ValidBlock(BlockEntry(lines, h))
    /\ h < k /\ k <= BlockEnd(lines, h)
    /\ IsCommentLine(lines[k])
    /\ \E m \in (k + 1)..BlockEnd(lines, h) :
          \E name \in RecognizedDirectives : IsDirectiveLine(lines[m], name)

(***************************************************************************)
(* C25  A comment line met while a Host block is open is appended verbatim *)
(* to that block's rawLines and comment and does not end the block,        *)
(* whether or not the comment is indented: directive lines that follow it  *)
(* still belong to the same entry (stated for a comment of a valid block   *)
(* that is followed by a directive line of the block).                     *)
(***************************************************************************)
C25_CommentStaysInBlock ==
    LET lines == ScanLines(file)
        es == parsed.entries
    IN  Last.op = "parse" =>
        \A h, k \in 1..Len(lines) :
            CommentInBlock(lines, h, k) =>
                \E i \in 1..Len(es) :
                    /\ es[i].StartLine <= h /\ h <= es[i].EndLine
                    /\ es[i].EndLine = BlockEnd(lines, h)
                    /\ es[i].RawLines[k - es[i].StartLine + 1] = lines[k]
                    /\ Contains(es[i].Comment, lines[k] \o <<NL>>)
                    /\ Directives(es[i]) = BlockEntry(lines, h)

(***************************************************************************)
(* C26  For every entry returned by ParseConfig, before any edit, rawLines *)
(* joined with newlines equals the original file text of lines startLine   *)
(* through endLine (1-based, inclusive); in particular the number of       *)
(* rawLines equals endLine - startLine + 1 and the first raw line is the   *)
(* line at startLine.                                                      *)
(***************************************************************************)
C26_RawLinesSpanBlock ==
    LET lines == ScanLines(file)
        es == parsed.entries
    IN  Last.op = "parse" =>
        \A i \in 1..Len(es) :
            /\ 1 <= es[i].StartLine /\ es[i].EndLine <= Len(lines)
            /\ Len(es[i].RawLines) = es[i].EndLine - es[i].StartLine + 1
            /\ es[i].RawLines[1] = lines[es[i].StartLine]
            /\ es[i].RawLines = SubSeq(lines, es[i].StartLine, es[i].EndLine)

\* a raw line that the writer does not interpret: a comment, a blank line,
\* a single-token line or a directive other than host, hostname, user, port
IsOpaqueLine(line) ==
    LET trimmed == TrimSpace(line)
        parts == Fields(trimmed)
    IN  \/ trimmed = <<>>
        \/ HasPrefix(trimmed, sHash)
        \/ Len(parts) < 2
        \/ ToLower(parts[1]) \notin {kHost, kHostName, kUser, kPort}

\* s occurs in t as a subsequence: its lines, in order, among those of t
RECURSIVE IsSubsequence(_, _)
IsSubsequence(s, t) ==
    IF s = <<>> THEN TRUE
    ELSE IF t = <<>> THEN FALSE
    ELSE IF Head(s) = Head(t) THEN IsSubsequence(Tail(s), Tail(t))
    ELSE IsSubsequence(s, Tail(t))

RemovedField ==
    /\ Last.op = "edit"
    /\ Last.field \in {"User", "Port"}
    /\ Last.value = <<>>
    /\ FieldOf(EntriesOf(before)[Last.index], Last.field) # <<>>

(***************************************************************************)
(* C28  Removing an optional field: when a passthrough entry's User or     *)
(* Port is set to empty, WriteConfig omits every User (respectively Port)  *)
(* line of that block and emits all other lines of the block unchanged;    *)
(* re-parsing returns the entry with that field empty.                     *)
(***************************************************************************)
C28_RemovedFieldOmitted ==
    RemovedField =>
        LET i == Last.index
            e == WrittenEntries[i]
            name == DirectiveOf(Last.field)
            new == EntriesOf(file)
        IN  /\ \A m \in 1..Len(writeEntry(e)) : ~IsDirectiveLine(writeEntry(e)[m], name)
            /\ writeEntry(e) =
                  SelectSeq(e.RawLines, LAMBDA l : ~IsDirectiveLine(l, name))
            /\ Len(new) >= i
            /\ FieldOf(new[i], Last.field) = <<>>

\* the last call gave HostName, User or Port a value in an entry whose raw
\* lines hold no line of that directive
AddedField ==
    /\ Last.op = "edit"
    /\ Last.field \in {"HostName", "User", "Port"}
    /\ Last.value # <<>>
    /\ ~HasLineOf(EntriesOf(before)[Last.index], Last.field)

\* the leading whitespace of the first line of the block that is neither
\* blank, a comment nor a Host line; 4 spaces when there is no such line
BlockIndent(rawLines) ==
    LET style == SelectSeq(rawLines,
                           LAMBDA l : /\ TrimSpace(l) # <<>>
                                      /\ ~IsCommentLine(l)
                                      /\ ~IsHostLine(l))
    IN  IF style = <<>> THEN sIndent4 ELSE LeadingWhitespace(style[1])

\* the directive names as WriteConfig spells them, in the order it appends
AppendOrder == <<"HostName", "User", "Port">>

SpelledDirective(field) ==
    CASE field = "HostName" -> sHostName
      [] field = "User" -> sUser
      [] field = "Port" -> sPort

\* one line, indented with indent, for each of HostName, User and Port that
\* has a value and no line in the raw lines of the entry
MissingLines(e, indent) ==
    LET line(k) == IF FieldOf(e, AppendOrder[k]) # <<>> /\ ~HasLineOf(e, AppendOrder[k])
                   THEN << indent \o SpelledDirective(AppendOrder[k])
                              \o sSp \o FieldOf(e, AppendOrder[k]) >>
                   ELSE <<>>
    IN  line(1) \o line(2) \o line(3)

\* the last edit gave the file exactly the replayed lines of the edited entry
\* followed by the missing lines, and the new value is parsed back
AppendedWith(indent) ==
    LET i == Last.index
        e == WrittenEntries[i]
        out == writeEntry(e)
        tail == ReplayRawLines(e, 1) \o MissingLines(e, indent)
        new == EntriesOf(file)
    IN  /\ Len(MissingLines(e, indent)) >= 1
        /\ Len(out) >= Len(tail)
        /\ SubSeq(out, Len(out) - Len(tail) + 1, Len(out)) = tail
        /\ Len(new) >= i
        /\ FieldOf(new[i], Last.field) = Last.value

\* the leading whitespace of the first line of the block that is neither
\* blank, a comment nor a Host line and that is indented; 4 spaces when
\* there is no such line
IndentedStyle(rawLines) ==
    LET style == SelectSeq(rawLines,
                           LAMBDA l : /\ TrimSpace(l) # <<>>
                                      /\ ~IsCommentLine(l)
                                      /\ ~IsHostLine(l)
                                      /\ LeadingWhitespace(l) # <<>>)
    IN  IF style = <<>> THEN sIndent4 ELSE LeadingWhitespace(style[1])

WrittenComments == ParseConfig(before).standaloneComments

\* the blocks of the entries from the i-th on, one blank line between two
RECURSIVE BlocksFrom(_, _)
BlocksFrom(entries, i) ==
    IF i > Len(entries) THEN <<>>
    ELSE IF i = Len(entries) THEN writeEntry(entries[i])
    ELSE writeEntry(entries[i]) \o <<lBlank>> \o BlocksFrom(entries, i + 1)

(***************************************************************************)
(* C30  Output layout: WriteConfig emits all standalone comments first,    *)
(* one per line, followed by exactly one blank line when there is at least *)
(* one comment and at least one entry, then the entries in list order with *)
(* exactly one blank line between the last line of one entry's block and   *)
(* the first line of the next; no blank line follows the last entry.       *)
(***************************************************************************)
C30_OutputLayout ==
    Wrote =>
        LET comments == WrittenComments
            entries == WrittenEntries
            blank == IF Len(comments) > 0 /\ Len(entries) > 0 THEN <<lBlank>> ELSE <<>>
            layout == comments \o blank \o BlocksFrom(entries, 1)
        IN  /\ ScanLines(file) = layout
            /\ Len(file) = Len(Flatten(layout)) + Len(layout)

\* a file with a standalone comment and two entries was written
C30_Witness ==
    /\ Wrote
    /\ Len(WrittenComments) >= 1
    /\ Len(WrittenEntries) >= 2
    /\ file # before

\* the last operation was an AddEntry
Added == history # <<>> /\ Last.op = "add"

\* the rows of a block written from scratch, in their order: the text before
\* the value, the value, and whether the row is written for an empty value
FreshRows(e) ==
    << <<sDescPrefix \o <<" ">>, e.Description, FALSE>>,
       <<sHost \o <<" ">>, e.Host, TRUE>>,
       <<<<" ", " ", " ", " ">> \o sHostName \o <<" ">>, e.HostName, FALSE>>,
       <<<<" ", " ", " ", " ">> \o sUser \o <<" ">>, e.User, FALSE>>,
       <<<<" ", " ", " ", " ">> \o sPort \o <<" ">>, e.Port, FALSE>> >>

RECURSIVE RowLines(_, _)
RowLines(rows, i) ==
    IF i > Len(rows) THEN <<>>
    ELSE (IF rows[i][3] \/ rows[i][2] # <<>> THEN <<rows[i][1] \o rows[i][2]>> ELSE <<>>)
         \o RowLines(rows, i + 1)

\* the last n lines of a sequence of lines
LastLines(lines, n) == SubSeq(lines, Len(lines) - n + 1, Len(lines))

(***************************************************************************)
(* C31  A freshly added entry (no rawLines) is serialized in the fixed     *)
(* order: a `# Description: <text>` line only if description is non-empty, *)
(* `Host <alias>`, then `HostName`, `User`, `Port` lines each present only *)
(* if its value is non-empty and each indented with exactly 4 spaces.  The *)
(* block is the end of the file and starts the file or follows a blank     *)
(* line.                                                                   *)
(***************************************************************************)
C31_FreshEntryLayout ==
    Added =>
        LET lines == ScanLines(file)
            block == RowLines(FreshRows(Last.entry), 1)
            n == Len(block)
        IN  /\ Len(lines) >= n
            /\ LastLines(lines, n) = block
            /\ Len(lines) > n => lines[Len(lines) - n] = <<>>

\* an entry with a description and a port but without user was added after
\* another entry
C31_Witness ==
    /\ Added
    /\ Last.entry.Description # <<>>
    /\ Last.entry.Port # <<>>
    /\ Last.entry.User = <<>>
    /\ Last.entry.HostName # <<>>
    /\ before # NoFile
    /\ Len(ScanLines(file)) > 4

\* a step of enter in list mode with an entry selected: connectToHost
ConnectStep ==
    /\ ui.mode = "list"
    /\ HasSelected(ui)
    /\ ui'.event \in {"connect", "connect failed"}

\* the tracker file has the line host:n
SavedCount(f, host, n) ==
    \E k \in 1..Len(ScanLines(f)) : ScanLines(f)[k] = host \o <<":">> \o Itoa(n)

(***************************************************************************)
(* C32  Connecting records the visit first: pressing Enter on a selected   *)
(* host in list mode increments that alias's visit count by exactly 1,     *)
(* leaves every other count unchanged, and saves the tracker file before   *)
(* the ssh process is launched; if saving fails, no ssh process is         *)
(* launched and the error is recorded.                                     *)
(***************************************************************************)
C32_VisitRecordedBeforeSsh ==
    [][ConnectStep =>
        LET host == GetSelected(ui).Host
            n == GetCount(tracker.counts, host)
        IN  /\ GetCount(tracker'.counts, host) = n + 1
            /\ \A h \in (DOMAIN tracker.counts \cup DOMAIN tracker'.counts) \ {host} :
                  GetCount(tracker'.counts, h) = GetCount(tracker.counts, h)
            /\ ui'.event = "connect" =>
                  /\ SavedCount(tracker'.file, host, n + 1)
                  /\ ui'.ssh = Append(ui.ssh, host)
                  /\ ui'.err = ui.err
            /\ ui'.event = "connect failed" =>
                  /\ ui'.ssh = ui.ssh
                  /\ ui'.err \in {ErrCreateTracker, ErrWriteTracker}
            /\ ui'.ssh # ui.ssh => SavedCount(tracker'.file, host, n + 1)]_vars

\* ssh was launched for host b after an Enter whose Save failed: both visits
\* are counted, the other host's count is as it was loaded
C32_Witness ==
    /\ ui.event = "connect"
    /\ ui.ssh = <<<<"b">>>>
    /\ ui.err # NoError
    /\ GetCount(tracker.counts, <<"b">>) = 4
    /\ GetCount(tracker.counts, <<"c">>) = 1
    /\ SavedCount(tracker.file, <<"b">>, 4)

\* a step in which DeleteEntry is called
DeleteCalled == history' # history /\ history'[Len(history')].op = "delete"

\* the selected index is inside the list shown
InBounds(m) ==
    /\ 0 <= m.selected
    /\ m.selected <= (IF Len(m.filtered) - 1 > 0 THEN Len(m.filtered) - 1 ELSE 0)

C38_SelectionInBounds ==
    /\ InBounds(ui)
    /\ (GetSelected(ui) = NoEntry) <=> (Len(ui.filtered) = 0)
    /\ HasSelected(ui) => GetSelected(ui) = ui.filtered[ui.selected + 1]

\* the second of two entries is selected while a search term hides nothing
C38_Witness ==
    /\ ui.mode = "list"
    /\ ui.searchTerm # <<>>
    /\ Len(ui.filtered) = 2
    /\ ui.selected = 1

(***************************************************************************)
(* C39  The delete target is fixed during confirmation: while the UI is in *)
(* delete-confirmation mode, no key event changes the selected entry, so   *)
(* the entry deleted on y/Y is the entry that was selected when `d` was    *)
(* pressed.                                                                *)
(***************************************************************************)
C39_DeleteTargetFixed ==
    [][/\ (ui.mode = "delete" /\ ui'.mode = "delete") =>
              GetSelected(ui') = GetSelected(ui)
       /\ (ui.mode = "delete" /\ DeleteCalled) =>
              history'[Len(history')].host = GetSelected(ui).Host]_vars

(***************************************************************************)
(* C40  The UI error is sticky: once a failed delete, reload, clear-visits *)
(* or tracker save has recorded an error in the model, no later key event  *)
(* clears it, so every later View renders only the error message while key *)
(* events continue to be processed and can still mutate the config file.   *)
(***************************************************************************)
C40_ErrorIsSticky ==
    [][/\ ui.err # NoError => (ui'.err # NoError /\ View(ui') = "error")
       /\ ui'.event \in {"delete failed", "reload failed", "clear failed", "connect failed"}
             => (ui'.err # NoError /\ View(ui') = "error")]_vars

\* after a tracker save failed, the editor was opened and a new entry was
\* saved to the config file while the error screen was shown
C40_Witness ==
    /\ ui.err = ErrCreateTracker
    /\ View(ui) = "error"
    /\ ui.event = "save"
    /\ ui.from = "add"
    /\ Last.op = "add"
    /\ file # before

\* the last operation was a rewrite: ParseConfig, then WriteConfig of what
\* it returned
Rewrote == history # <<>> /\ Last.op = "rewrite"

\* the largest number of blank lines in a row between two lines of a file
RECURSIVE BlankRun(_, _, _, _)
BlankRun(lines, i, run, best) ==
    IF i > Len(lines) THEN best
    ELSE IF lines[i] = <<>> THEN BlankRun(lines, i + 1, run + 1, best)
    ELSE BlankRun(lines, i + 1, 0, IF run > best THEN run ELSE best)

(***************************************************************************)
(* C34  Rewrite is idempotent: for every file, applying parse-then-write   *)
(* twice gives the same bytes as applying it once; in particular the       *)
(* number of blank lines between two consecutive Host blocks does not grow *)
(* with each AddEntry, UpdateEntry or DeleteEntry performed on the file.   *)
(***************************************************************************)
C34_RewriteIdempotent ==
    Rewrote =>
        /\ RewriteFile(file) = file
        /\ BlankRun(ScanLines(RewriteFile(file)), 1, 0, 0) <= BlankRun(ScanLines(file), 1, 0, 0)

\* the last operation was an AddEntry, UpdateEntry or DeleteEntry
Mutated == history # <<>> /\ Last.op \in {"add", "update", "delete"}

\* the alias the last mutation was called for
TargetAlias == IF Last.op = "add" THEN Last.entry.Host ELSE Last.host

\* line k belongs to a block of the alias: it lies between a Host line of the
\* alias and the end of that block, or it is one of the comment and blank
\* lines directly above such a Host line
InBlockOf(lines, k, alias) ==
    \E h \in 1..Len(lines) :
        /\ IsHostLine(lines[h])
        /\ ValueOf(lines[h]) = alias
        /\ \/ h <= k /\ k <= BlockEnd(lines, h)
           \/ k < h /\ \A m \in k..(h - 1) :
                          TrimSpace(lines[m]) = <<>> \/ IsCommentLine(lines[m])

(***************************************************************************)
(* C35  Mutations do not touch unrelated text: after AddEntry, UpdateEntry *)
(* or DeleteEntry on one alias, every non-blank line of the original file  *)
(* that does not belong to the targeted entry's block is still present in  *)
(* the file, including the lines of Host blocks that fail validation (no   *)
(* HostName) and directive lines that stand outside any Host block.        *)
(***************************************************************************)
C35_UnrelatedLinesKept ==
    Mutated =>
        LET old == ScanLines(before)
            new == ScanLines(file)
        IN  \A k \in 1..Len(old) :
               (TrimSpace(old[k]) # <<>> /\ ~InBlockOf(old, k, TargetAlias))
                   => \E j \in 1..Len(new) : new[j] = old[k]

(***************************************************************************)
(* C36  Parsed content is stable across a rewrite: for every file f,       *)
(* ParseConfig of the file written from ParseConfig(f) returns the same    *)
(* sequence of entries with the same alias, HostName, User, Port,          *)
(* IdentityFile and description as ParseConfig(f), and the same standalone *)
(* comments; a standalone comment is never turned into the leading comment *)
(* or description of an entry by a rewrite.                                *)
(***************************************************************************)
C36_ParseStableAcrossRewrite ==
    Rewrote =>
        LET old == ParseConfig(before)
            new == ParseConfig(file)
        IN  /\ DataOf(new.entries) = DataOf(old.entries)
            /\ new.standaloneComments = old.standaloneComments
            /\ \A i \in 1..Len(new.entries), c \in 1..Len(old.standaloneComments) :
                  \A k \in 1..Len(new.entries[i].RawLines) :
                      new.entries[i].RawLines[k] = old.standaloneComments[c]
                          => \E j \in 1..Len(old.entries) :
                                \E m \in 1..Len(old.entries[j].RawLines) :
                                   old.entries[j].RawLines[m] = old.standaloneComments[c]

\* an UpdateEntry that found its alias among the entries ParseConfig returned
Updated == history # <<>> /\ Last.op = "update" /\ FirstIndex(EntriesOf(before), Last.host) # 0

\* the Host line of the first valid block of the alias
FirstBlockOf(lines, alias) ==
    CHOOSE h \in 1..Len(lines) :
        /\ IsHostLine(lines[h]) /\ ValueOf(lines[h]) = alias
        /\ ValidBlock(BlockEntry(lines, h))
        /\ \A g \in 1..(h - 1) :
              ~(IsHostLine(lines[g]) /\ ValueOf(lines[g]) = alias
                /\ ValidBlock(BlockEntry(lines, g)))

\* line i of the lines after a Host line is one that a block written from
\* scratch cannot hold: a comment with a directive of the block after it, an
\* IdentityFile line or an unrecognized directive
NotRewritten(interior, i) ==
    /\ TrimSpace(interior[i]) # <<>>
    /\ IF IsCommentLine(interior[i])
       THEN \E j \in (i + 1)..Len(interior) :
               TrimSpace(interior[j]) # <<>> /\ ~IsCommentLine(interior[j])
       ELSE ~(\E name \in {kHost, kHostName, kUser, kPort} :
                 IsDirectiveLine(interior[i], name))

\* the lines p..p+n-1 are the block, and a blank line or nothing follows
BlockAt(lines, p, block) ==
    /\ p + Len(block) - 1 <= Len(lines)
    /\ SubSeq(lines, p, p + Len(block) - 1) = block
    /\ p + Len(block) <= Len(lines) => lines[p + Len(block)] = <<>>
    /\ p > 1 => lines[p - 1] = <<>>

(***************************************************************************)
(* C37  UpdateEntry with a newEntry that carries no rawLines (as the UI    *)
(* editor produces) rewrites the block from scratch: after the call the    *)
(* block of that alias consists only of the optional `# Description:` line *)
(* and the Host, HostName, User and Port lines, and the old block's        *)
(* interior comments, unrecognized directives and IdentityFile line are no *)
(* longer in the file.                                                     *)
(***************************************************************************)
C37_UpdateRewritesBlock ==
    Updated =>
        LET old == ScanLines(before)
            new == ScanLines(file)
            h == FirstBlockOf(old, Last.host)
            interior == SubSeq(old, h + 1, BlockEnd(old, h))
        IN  /\ \E p \in 1..Len(new) : BlockAt(new, p, RowLines(FreshRows(Last.entry), 1))
            /\ \A i \in 1..Len(interior) :
                  NotRewritten(interior, i)
                     => Occurrences(new, interior[i])
                           <= Occurrences(old, interior[i]) - Occurrences(interior, interior[i])

====
